---- MODULE Spec2Model ----
(***************************************************************************)
(* A model of the TDD-based C -> C# migration pipeline.                    *)
(*                                                                         *)
(*   - DependencyGraph (src/src/core/models/dependency_graph.py)           *)
(*   - MigrationReport / ConversionResult                                  *)
(*       (src/src/core/models/conversion_result.py)                        *)
(*   - MigrationOrchestrator.migrate_all and _convert_program_with_retry   *)
(*       (src/src/orchestrator/migration_orchestrator.py)                  *)
(*   - the exit code of the migrate command (src/main.py)                  *)
(*                                                                         *)
(*   - DependenciesAnalysis, the rate limiter and the Gemini converter     *)
(*       (src/src/core, src/src/converter)                                 *)
(*   - HybridCToCSharpConverter (src/src/converter/hybrid_converter.py)    *)
(*   - OutputValidator (src/src/validator/output_validator.py)             *)
(*   - CTestRunner and CSharpTestRunner (src/src/test_runner)              *)
(*   - TestGenerator and InputGenerator (src/src/test_generator)           *)
(*                                                                         *)
(* The specifications share the variables; each drives one component and   *)
(* leaves the others as constructed:                                       *)
(*   Spec           the orchestrator: repeated migrate_all calls on one    *)
(*                  orchestrator, each over a project of C files           *)
(*   GraphSpec      a DependencyGraph driven by arbitrary add_node,        *)
(*                  mark_as_converted and get_conversion_order calls       *)
(*   AnalysisSpec   DependenciesAnalysis over an include graph             *)
(*   LimiterSpec    the workers that share the rate limiter                *)
(*   ChunkSpec      the retry loop of one chunk conversion; ChunkFairSpec  *)
(*                  adds the fairness of the running call                  *)
(*   CacheSpec      _convert_chunk_with_cache calls over one cache dir     *)
(*   HybridSpec     HybridCToCSharpConverter.convert                       *)
(*   ValidatorSpec  OutputValidator.validate over a suite of results       *)
(*   RunnerSpec     run_tests of the two test runners                      *)
(*   GeneratorSpec  generate_tests, once in each attempt of the retry loop *)
(*   ConvertSpec    GeminiCToCSharpConverter.convert: chunks, worker pool, *)
(*                  assembly                                               *)
(*   AttemptSpec    one attempt: the two test runs and the validation      *)
(*   StripSpec      _remove_main_function over a C source                  *)
(*   SccSpec        tarjan_scc, condense_graph and topo_on_condensed       *)
(*   AdmitSpec      _convert_chunk_with_cache with the cache, the rate     *)
(*                  limiter and the retry loop                             *)
(***************************************************************************)
EXTENDS Integers, Sequences, FiniteSets, TLC

VARIABLES
    dependency_graph,   \* DependencyGraph: [nodes, node_ids, reverse_dependencies]
    conversion_order,   \* the list returned by the last get_conversion_order
    order_status,       \* "none" | "ok" | "ValueError": how that call ended
    add_calls,          \* GraphSpec: number of add_node calls made so far
    returned,           \* GraphSpec: the last read-only call and what it returned
    max_retries,        \* config["max_retries"]
    programs,           \* self.programs: the parsed CPrograms, in parse order
    migration_report,   \* self.migration_report
    pc,                 \* position of the orchestrator
    idx,                \* 1-based position of the step-4 loop in conversion_order
    result,             \* the ConversionResult of the running/last conversion
    attempt,            \* loop variable of _convert_program_with_retry
    step,               \* sub-step of the running attempt
    test_suite,         \* number of test cases of the generated suite
    validation_results, \* is_match of each ValidationResult of the last validation
    runs,               \* number of migrate_all calls started on this orchestrator
    hist,               \* history of the running call, read only by the properties
    include_graph,      \* AnalysisSpec: the Dict[str, Set[str]] given to DependenciesAnalysis
    analysis_pc,        \* AnalysisSpec: position of the caller of DependenciesAnalysis
    topo,               \* AnalysisSpec: the running topological_sort
    analysis_out,       \* AnalysisSpec: what the two calls returned
    clock,              \* LimiterSpec: time.time(), in seconds
    max_requests_per_minute, \* RateLimiter.max_requests_per_minute
    requests_timestamps,     \* RateLimiter.requests_timestamps
    worker,             \* LimiterSpec: the pool threads inside wait_if_needed
    admissions,         \* LimiterSpec: the instants at which wait_if_needed returned
    limiter_max_retries, \* RateLimiter.max_retries
    chunk_call,         \* ChunkSpec: the running _convert_chunk_with_gemini
    chunks_done,        \* ChunkSpec: number of chunks converted so far
    cache_files,        \* CacheSpec: the files of cache_dir, by cache key
    persisted,          \* CacheSpec: the response persisted for each chunk triple (history)
    cache_call,         \* CacheSpec: the last _convert_chunk_with_cache call
    cache_calls,        \* CacheSpec: number of calls made
    hybrid,             \* HybridSpec: use_gemini and fallback_to_rules of the converter
    hybrid_call,        \* HybridSpec: the last convert call
    chunk_results,      \* HybridSpec: the chunk responses behind the LLM output of that call
    validator_in,       \* ValidatorSpec: the C and C# result of each test of the suite
    validator_out,      \* ValidatorSpec: the list returned by validate
    runner_in,          \* RunnerSpec: the runner, how compile and the binary end, the stdout
    runner_out,         \* RunnerSpec: the dict returned by run_tests
    generator_source,   \* the functions of the parsed C source
    generator_program,  \* program.functions as the analyzer built them
    klee_available,     \* symbolic_generator.is_available()
    random_state,       \* the state of the global generator of the random module
    test_suites,        \* the suites returned by generate_tests, one per attempt
    convert_program,    \* the CProgram given to convert
    convert_chunks,     \* the chunk list given to _process_chunks_with_dependencies
    max_parallel,       \* self.max_parallel
    converted_chunks,   \* converted_chunks: chunk_id -> response
    remaining_chunks,   \* the keys of remaining_chunks
    futures,            \* the futures of the running level: chunk_id -> state
    convert_pc,         \* position of the main thread in convert
    convert_log,        \* the submit and complete events so far, read by the properties
    csharp_code,        \* the lines of the code that convert returned
    attempt_in,         \* AttemptSpec: what the compilers and binaries of one attempt do
    attempt_out,        \* AttemptSpec: the results, the validation and the decision
    strip_in,           \* StripSpec: the lines of the source given to _remove_main_function
    strip_out,          \* StripSpec: the numbers of the source lines that the result holds
    scc_in,             \* SccSpec: the include graph given to tarjan_scc
    scc_out             \* SccSpec: the components, the condensed graph and its order

vars == << dependency_graph, conversion_order, order_status, add_calls, returned,
           max_retries, programs, migration_report, pc, idx, result, attempt,
           step, test_suite, validation_results, runs, hist,
           include_graph, analysis_pc, topo, analysis_out,
           clock, max_requests_per_minute, requests_timestamps, worker, admissions,
           limiter_max_retries, chunk_call, chunks_done,
           cache_files, persisted, cache_call, cache_calls,
           hybrid, hybrid_call, chunk_results,
           validator_in, validator_out,
           runner_in, runner_out,
           generator_source, generator_program, klee_available, random_state, test_suites,
           convert_program, convert_chunks, max_parallel, converted_chunks, remaining_chunks, futures, convert_pc, convert_log, csharp_code,
           attempt_in, attempt_out,
           strip_in, strip_out,
           scc_in, scc_out >>

graphVars == << dependency_graph, conversion_order, order_status, add_calls, returned >>

orchVars == << max_retries, programs, migration_report, pc, idx, result,
               attempt, step, test_suite, validation_results, runs, hist >>

\* The variables of the other components, which the orchestrator and the
\* DependencyGraph never touch.
analysisVars == << include_graph, analysis_pc, topo, analysis_out >>

limiterVars ==
    << clock, max_requests_per_minute, requests_timestamps, worker, admissions >>

chunkVars == << limiter_max_retries, chunk_call, chunks_done >>

cacheVars == << cache_files, persisted, cache_call, cache_calls >>

hybridVars == << hybrid, hybrid_call, chunk_results >>

validatorVars == << validator_in, validator_out >>

runnerVars == << runner_in, runner_out >>

generatorVars == << generator_source, generator_program, klee_available, random_state, test_suites >>

convertVars == << convert_program, convert_chunks, max_parallel, converted_chunks, remaining_chunks, futures, convert_pc, convert_log, csharp_code >>

attemptVars == << attempt_in, attempt_out >>

stripVars == << strip_in, strip_out >>

sccVars == << scc_in, scc_out >>

otherVars == << analysisVars, limiterVars, chunkVars,
       cacheVars,
       hybridVars,
       validatorVars,
       runnerVars,
       generatorVars,
       convertVars,
       attemptVars,
       stripVars,
       sccVars >>

\* What a step of DependenciesAnalysis leaves alone.
notAnalysisVars == << graphVars, orchVars, limiterVars, chunkVars,
       cacheVars,
       hybridVars,
       validatorVars,
       runnerVars,
       generatorVars,
       convertVars,
       attemptVars,
       stripVars,
       sccVars >>

\* What a step of the RateLimiter leaves alone.
notLimiterVars == << graphVars, orchVars, analysisVars, chunkVars,
       cacheVars,
       hybridVars,
       validatorVars,
       runnerVars,
       generatorVars,
       convertVars,
       attemptVars,
       stripVars,
       sccVars >>

\* What a step of _convert_chunk_with_gemini leaves alone.
notChunkVars == << graphVars, orchVars, analysisVars, worker, admissions,
       cacheVars,
       hybridVars,
       validatorVars,
       runnerVars,
       generatorVars,
       convertVars,
       attemptVars,
       stripVars,
       sccVars >>

\* What a _convert_chunk_with_cache call leaves alone.
notCacheVars ==
    << graphVars,
       orchVars,
       analysisVars,
       limiterVars,
       chunkVars,
       hybridVars,
       validatorVars,
       runnerVars,
       generatorVars,
       convertVars,
       attemptVars,
       stripVars,
       sccVars >>

\* What a HybridCToCSharpConverter.convert call leaves alone.
notHybridVars ==
    << graphVars,
       orchVars,
       analysisVars,
       limiterVars,
       chunkVars,
       cacheVars,
       validatorVars,
       runnerVars,
       generatorVars,
       convertVars,
       attemptVars,
       stripVars,
       sccVars >>

\* What OutputValidator.validate leaves alone.
notValidatorVars ==
    << graphVars,
       orchVars,
       analysisVars,
       limiterVars,
       chunkVars,
       cacheVars,
       hybridVars,
       runnerVars,
       generatorVars,
       convertVars,
       attemptVars,
       stripVars,
       sccVars >>

\* What run_tests leaves alone.
notRunnerVars ==
    << graphVars,
       orchVars,
       analysisVars,
       limiterVars,
       chunkVars,
       cacheVars,
       hybridVars,
       validatorVars,
       generatorVars,
       convertVars,
       attemptVars,
       stripVars,
       sccVars >>

\* What the actions of the test generator leave alone.
notGeneratorVars ==
    << graphVars,
       orchVars,
       analysisVars,
       limiterVars,
       chunkVars,
       cacheVars,
       hybridVars,
       validatorVars,
       runnerVars,
       convertVars,
       attemptVars,
       stripVars,
       sccVars >>

\* What the actions of convert leave alone.
notConvertVars ==
    << graphVars,
       orchVars,
       analysisVars,
       limiterVars,
       chunkVars,
       cacheVars,
       hybridVars,
       validatorVars,
       runnerVars,
       generatorVars,
       attemptVars,
       stripVars,
       sccVars >>

\* What the attempt action leaves alone.
notAttemptVars ==
    << graphVars,
       orchVars,
       analysisVars,
       limiterVars,
       chunkVars,
       cacheVars,
       hybridVars,
       validatorVars,
       runnerVars,
       generatorVars,
       convertVars,
       stripVars,
       sccVars >>

\* What the main-stripping action leaves alone.
notStripVars ==
    << graphVars,
       orchVars,
       analysisVars,
       limiterVars,
       chunkVars,
       cacheVars,
       hybridVars,
       validatorVars,
       runnerVars,
       generatorVars,
       convertVars,
       attemptVars,
       sccVars >>

\* What the condensation action leaves alone.
notSccVars ==
    << graphVars,
       orchVars,
       analysisVars,
       limiterVars,
       chunkVars,
       cacheVars,
       hybridVars,
       validatorVars,
       runnerVars,
       generatorVars,
       convertVars,
       attemptVars,
       stripVars >>

\* What a cached chunk conversion (cache, rate limiter and retry loop) leaves
\* alone.
notAdmitVars ==
    << graphVars, orchVars, analysisVars, hybridVars, validatorVars, runnerVars,
       generatorVars, convertVars, attemptVars, stripVars, sccVars >>

(***************************************************************************)
(* Bounds of the model.                                                    *)
(***************************************************************************)
MaxRetriesCfg == 2   \* config["max_retries"] ranges over 0..MaxRetriesCfg
MaxTests == 2        \* a generated suite holds 0..MaxTests test cases
MaxRuns == 2         \* migrate_all calls on one orchestrator
MaxAddNodes == 2     \* add_node calls on one DependencyGraph (GraphSpec)
MaxWorkers == 2      \* pool threads that call the RateLimiter (LimiterSpec)
MaxWaits == 2        \* wait_if_needed calls of each thread (LimiterSpec)
MaxRpm == 2          \* max_requests_per_minute ranges over 1..MaxRpm (LimiterSpec)
MaxClock == 130      \* the clock stops at this many seconds (LimiterSpec)
TickSeconds == 30    \* the clock advances by this much, or to a wake-up time
MaxChunkRetries == 3 \* RateLimiter.max_retries ranges over 0..MaxChunkRetries (ChunkSpec)
MaxChunks == 2       \* chunks converted one after the other (ChunkSpec)
SuggestedTenths == 120  \* a retryDelay of "12s", in tenths of a second
TextTenths == 127    \* a "retry in 12.7s" of the error text, in tenths of a second
MaxCacheCalls == 3   \* _convert_chunk_with_cache calls (CacheSpec)
MaxFunctions == 2    \* a CProgram holds 0..MaxFunctions functions (HybridSpec)
MaxSuiteTests == 2   \* test cases of a validated suite (ValidatorSpec)
MaxRunnerTests == 2  \* test cases of a suite given to run_tests (RunnerSpec)
MaxSourceFunctions == 2  \* functions of a parsed source file (GeneratorSpec)
MaxParameters == 1   \* parameters of a function (GeneratorSpec)
MaxGenerateCalls == 2  \* generate_tests calls for a program: the attempts
MaxKleeTests == 1    \* test cases KLEE finds for one function
MaxConvertChunks == 4  \* chunks of a program given to convert (ConvertSpec)
MaxParallel == 2     \* max_parallel ranges over 1..MaxParallel (ConvertSpec)
MaxSourceLines == 5  \* lines of a source given to _remove_main_function (StripSpec)
MaxAdmitRetries == 1  \* RateLimiter.max_retries ranges over 0..MaxAdmitRetries (AdmitSpec)

(***************************************************************************)
(* Program ids and files.  Ids are strings; list.sort() orders them        *)
(* alphabetically, which IdRank reproduces.                                *)
(***************************************************************************)
Ids == {"a", "b", "c"}

IdRank(id) == CASE id = "a" -> 1 [] id = "b" -> 2 [] id = "c" -> 3

\* The files a project may hold.  a.c and a.h share the stem "a".
Files == {"a.c", "a.h", "b.c"}

\* sorted(files) of find_c_files: the order of Path comparison.
FileRank(f) == CASE f = "a.c" -> 1 [] f = "a.h" -> 2 [] f = "b.c" -> 3

\* program_id = file_path.stem
Stem(f) == CASE f = "a.c" -> "a" [] f = "a.h" -> "a" [] f = "b.c" -> "b"

(***************************************************************************)
(* Sequence helpers.                                                       *)
(***************************************************************************)
Range(s) == {s[i] : i \in 1..Len(s)}

IndexOf(s, x) == CHOOSE i \in 1..Len(s) : s[i] = x /\ \A j \in 1..(i - 1) : s[j] # x

\* The program ids of the finite set S as a list in alphabetical order.
RECURSIVE SortedIds(_)
SortedIds(S) ==
    IF S = {} THEN << >>
    ELSE LET m == CHOOSE x \in S : \A y \in S : IdRank(x) <= IdRank(y)
         IN  << m >> \o SortedIds(S \ {m})

\* The files of the finite set S as a list in the order of sorted().
RECURSIVE SortedFiles(_)
SortedFiles(S) ==
    IF S = {} THEN << >>
    ELSE LET m == CHOOSE x \in S : \A y \in S : FileRank(x) <= FileRank(y)
         IN  << m >> \o SortedFiles(S \ {m})

\* list.sort() on a list of program ids (insertion sort, stable).
RECURSIVE SortIds(_)
SortIds(s) ==
    IF s = << >> THEN << >>
    ELSE LET rest == SortIds(Tail(s))
             k == Cardinality({i \in 1..Len(rest) : IdRank(rest[i]) < IdRank(Head(s))})
         IN  SubSeq(rest, 1, k) \o << Head(s) >> \o SubSeq(rest, k + 1, Len(rest))

(***************************************************************************)
(* DependencyGraph                                                         *)
(***************************************************************************)
\* conversion_order: Optional[int] = None
NoOrder == -1

\* DependencyNode(program_id, dependencies): is_converted False, conversion_order None
DependencyNode(dependencies) ==
    [dependencies |-> dependencies, is_converted |-> FALSE, conversion_order |-> NoOrder]

\* DependencyGraph.__init__: no nodes; the reverse index is a defaultdict(set),
\* modelled as a total function whose default is the empty set.
EmptyGraph ==
    [nodes |-> << >>, node_ids |-> << >>, reverse_dependencies |-> [d \in Ids |-> {}]]

\* The loop "for dep in dependencies" of add_node, from position i on.
RECURSIVE AddNodeDeps(_, _, _, _)
AddNodeDeps(g, program_id, dependencies, i) ==
    IF i > Len(dependencies) THEN g
    ELSE LET dep == dependencies[i]
             rev == [g.reverse_dependencies EXCEPT ![dep] = @ \cup {program_id}]
             g1 == IF dep \in DOMAIN g.nodes
                   THEN [g EXCEPT !.reverse_dependencies = rev]
                   ELSE [nodes |-> g.nodes @@ (dep :> DependencyNode(<< >>)),
                         node_ids |-> Append(g.node_ids, dep),
                         reverse_dependencies |-> rev]
         IN  AddNodeDeps(g1, program_id, dependencies, i + 1)

\* DependencyGraph.add_node
AddNode(g, program_id, dependencies) ==
    LET g1 == IF program_id \notin DOMAIN g.nodes
              THEN [g EXCEPT !.nodes = @ @@ (program_id :> DependencyNode(dependencies)),
                             !.node_ids = Append(@, program_id)]
              ELSE [g EXCEPT !.nodes[program_id].dependencies = dependencies]
    IN  AddNodeDeps(g1, program_id, dependencies, 1)

\* DependencyGraph.mark_as_converted
MarkAsConverted(g, program_id) ==
    IF program_id \in DOMAIN g.nodes
    THEN [g EXCEPT !.nodes[program_id].is_converted = TRUE]
    ELSE g

\* Lines 81-84: all dependencies converted; a dependency that is no node counts
\* as converted (the default DependencyNode(dep, [], True) of the lookup).
AllDepsConverted(g, program_id) ==
    \A i \in 1..Len(g.nodes[program_id].dependencies) :
        LET dep == g.nodes[program_id].dependencies[i]
        IN  IF dep \in DOMAIN g.nodes THEN g.nodes[dep].is_converted ELSE TRUE

\* DependencyGraph.get_ready_to_convert: the list, in the order of the node dict.
GetReadyToConvertIgnoringDependencies(g) ==
    SelectSeq(g.node_ids, LAMBDA n : ~g.nodes[n].is_converted)

GetReadyToConvert(g) ==
    SelectSeq(g.node_ids,
              LAMBDA n : ~g.nodes[n].is_converted /\ AllDepsConverted(g, n))

\* DependencyGraph.get_dependent_programs
GetDependentPrograms(g, program_id) == g.reverse_dependencies[program_id]

(***************************************************************************)
(* detect_circular_dependencies: the DFS with its three shared collections *)
(* st = [visited, recursion_stack, cycles].                                *)
(***************************************************************************)
RECURSIVE Dfs(_, _, _, _), DfsDeps(_, _, _, _, _)
Dfs(g, node_id, path, st) ==
    LET st1 == [visited |-> st.visited \cup {node_id},
                recursion_stack |-> st.recursion_stack \cup {node_id},
                cycles |-> st.cycles]
        path1 == Append(path, node_id)
        st2 == IF node_id \in DOMAIN g.nodes
               THEN DfsDeps(g, node_id, path1, 1, st1)
               ELSE st1
    IN  [st2 EXCEPT !.recursion_stack = @ \ {node_id}]

DfsDeps(g, node_id, path, i, st) ==
    IF i > Len(g.nodes[node_id].dependencies) THEN st
    ELSE LET dep == g.nodes[node_id].dependencies[i]
             st1 == IF dep \notin st.visited
                    THEN Dfs(g, dep, path, st)
                    ELSE IF dep \in st.recursion_stack
                         THEN LET cycle_start == IndexOf(path, dep)
                                  cycle == SubSeq(path, cycle_start, Len(path)) \o << dep >>
                              IN  [st EXCEPT !.cycles = Append(@, cycle)]
                         ELSE st
         IN  DfsDeps(g, node_id, path, i + 1, st1)

\* The loop "for node_id in self._nodes.keys()" from position i on.
RECURSIVE DfsRoots(_, _, _)
DfsRoots(g, i, st) ==
    IF i > Len(g.node_ids) THEN st
    ELSE DfsRoots(g, i + 1,
                  IF g.node_ids[i] \notin st.visited
                  THEN Dfs(g, g.node_ids[i], << >>, st)
                  ELSE st)

\* DependencyGraph.detect_circular_dependencies: the list of cycles
DetectCircularDependencies(g) ==
    DfsRoots(g, 1, [visited |-> {}, recursion_stack |-> {}, cycles |-> << >>]).cycles

(***************************************************************************)
(* get_conversion_order: Kahn's algorithm as the code runs it.             *)
(***************************************************************************)
\* in_degree after the two loops of lines 158-163: one increment per entry of
\* the dependency list that names a node (a name listed twice counts twice).
InDegree(g) ==
    [n \in DOMAIN g.nodes |->
        Cardinality({i \in 1..Len(g.nodes[n].dependencies) :
                        g.nodes[n].dependencies[i] \in DOMAIN g.nodes})]

\* The while loop of lines 168-178.
RECURSIVE KahnLoop(_, _, _, _)
KahnLoop(g, in_degree, queue, order) ==
    IF queue = << >> THEN order
    ELSE LET sorted == SortIds(queue)
             node_id == Head(sorted)
             dependents == g.reverse_dependencies[node_id]
             in_degree1 == [n \in DOMAIN in_degree |->
                               IF n \in dependents THEN in_degree[n] - 1 ELSE in_degree[n]]
             ready == {n \in dependents : in_degree1[n] = 0}
         IN  KahnLoop(g, in_degree1,
                      Tail(sorted) \o SortedIds(ready),
                      Append(order, node_id))

\* DependencyGraph.get_statistics: the counts (the progress percentage and the
\* cycle list add nothing to them).
RECURSIVE SumDependencies(_, _)
SumDependencies(g, i) ==
    IF i > Len(g.node_ids) THEN 0
    ELSE Len(g.nodes[g.node_ids[i]].dependencies) + SumDependencies(g, i + 1)

GetStatistics(g) ==
    LET converted_nodes == Cardinality({n \in DOMAIN g.nodes : g.nodes[n].is_converted})
    IN  [total_programs |-> Len(g.node_ids),
         converted_programs |-> converted_nodes,
         pending_programs |-> Len(g.node_ids) - converted_nodes,
         total_dependencies |-> SumDependencies(g, 1),
         circular_dependencies |-> Len(DetectCircularDependencies(g))]

\* The order computed by lines 157-178 (no cycle check).
KahnOrder(g) ==
    LET in_degree == InDegree(g)
        queue == SelectSeq(g.node_ids, LAMBDA n : in_degree[n] = 0)
    IN  KahnLoop(g, in_degree, queue, << >>)

\* Lines 180-182: conversion_order of every node of the order is its index.
SetConversionOrder(g, order) ==
    [g EXCEPT !.nodes = [n \in DOMAIN g.nodes |->
        IF n \in Range(order)
        THEN [g.nodes[n] EXCEPT !.conversion_order = IndexOf(order, n) - 1]
        ELSE g.nodes[n]]]

\* DependencyGraph.get_conversion_order: raised = TRUE models the ValueError.
GetConversionOrder(g) ==
    IF DetectCircularDependencies(g) # << >>
    THEN [raised |-> TRUE, order |-> << >>, graph |-> g]
    ELSE LET order == KahnOrder(g)
         IN  [raised |-> FALSE, order |-> order, graph |-> SetConversionOrder(g, order)]

(***************************************************************************)
(* ConversionResult and MigrationReport                                    *)
(***************************************************************************)
\* ConversionResult(program_id, max_retries): status PENDING, no issue, retry_count 0.
\* errors counts the issues of severity "error".  The metrics, the code and the
\* timestamps of the result decide no branch and are left out.
NewConversionResult(program_id, maxr) ==
    [program_id |-> program_id, status |-> "pending", retry_count |-> 0,
     max_retries |-> maxr, errors |-> 0]

\* ConversionResult.mark_success
MarkSuccess(r) == [r EXCEPT !.status = "success"]

\* ConversionResult.mark_failed: status FAILED and one more error issue
MarkFailed(r) == [r EXCEPT !.status = "failed", !.errors = @ + 1]

\* MigrationReport()
NewMigrationReport ==
    [total_programs |-> 0, converted_programs |-> 0, failed_programs |-> 0,
     skipped_programs |-> 0, conversion_results |-> << >>]

\* What the report keeps of a result it holds: the fields its readers use.
ReportEntry(r) == [program_id |-> r.program_id, status |-> r.status]

\* MigrationReport.add_result
AddResult(report, r) ==
    [report EXCEPT
        !.conversion_results = Append(@, ReportEntry(r)),
        !.converted_programs = IF r.status = "success" THEN @ + 1 ELSE @,
        !.failed_programs = IF r.status = "failed" THEN @ + 1 ELSE @,
        !.skipped_programs = IF r.status = "skipped" THEN @ + 1 ELSE @]

\* main.migrate: sys.exit(0) if report.failed_programs == 0 else sys.exit(1)
ExitCode(report) == IF report.failed_programs = 0 THEN 0 ELSE 1

(***************************************************************************)
(* MigrationOrchestrator: parsing and dependency analysis                  *)
(***************************************************************************)
\* "max_retries": 3 of _default_config
DefaultMaxRetries == 3

\* _parse_c_programs: one CProgram per file, in the order of sorted(files);
\* includes are the user includes of the file.
RECURSIVE ParsePrograms(_, _)
ParsePrograms(files, includes) ==
    IF files = << >> THEN << >>
    ELSE << [file_path |-> Head(files), program_id |-> Stem(Head(files)),
             includes |-> includes[Head(files)], is_converted |-> FALSE] >>
         \o ParsePrograms(Tail(files), includes)

\* Lines 455-459: the program_id of the first parsed program whose file name is
\* dep_file; "" stands for None (both are falsy at line 461).
DepProgramId(progs, dep_file) ==
    IF \E i \in 1..Len(progs) : progs[i].file_path = dep_file
    THEN progs[CHOOSE i \in 1..Len(progs) :
                 /\ progs[i].file_path = dep_file
                 /\ \A j \in 1..(i - 1) : progs[j].file_path # dep_file].program_id
    ELSE ""

\* Lines 451-462: the dependency list of one program.  graph[file_name] is the set
\* of its user includes (build_dependency_graph, all files in one directory); the
\* set is walked in sorted order, the order being immaterial to every reader.
RECURSIVE DependenciesOf(_, _, _)
DependenciesOf(progs, program_id, dep_files) ==
    IF dep_files = << >> THEN << >>
    ELSE LET dep_program_id == DepProgramId(progs, Head(dep_files))
             rest == DependenciesOf(progs, program_id, Tail(dep_files))
         IN  IF dep_program_id # "" /\ dep_program_id # program_id
             THEN << dep_program_id >> \o rest
             ELSE rest

\* Lines 446-464: one add_node per parsed program, from position i on.
RECURSIVE AddPrograms(_, _, _)
AddPrograms(g, progs, i) ==
    IF i > Len(progs) THEN g
    ELSE AddPrograms(
            AddNode(g, progs[i].program_id,
                    DependenciesOf(progs, progs[i].program_id,
                                   SortedFiles(progs[i].includes))),
            progs, i + 1)

\* _analyze_dependencies: the graph, after the trial get_conversion_order of
\* lines 482-486 (which sets conversion_order on the nodes when it succeeds).
AnalyzeDependencies(progs) ==
    IF progs = << >> THEN EmptyGraph
    ELSE GetConversionOrder(AddPrograms(EmptyGraph, progs, 1)).graph

\* _get_program_by_id: the position of the first program with that id, 0 for None.
GetProgramById(progs, program_id) ==
    IF \E i \in 1..Len(progs) : progs[i].program_id = program_id
    THEN CHOOSE i \in 1..Len(progs) :
            /\ progs[i].program_id = program_id
            /\ \A j \in 1..(i - 1) : progs[j].program_id # program_id
    ELSE 0

(***************************************************************************)
(* _convert_program_with_retry: the decisions of one attempt               *)
(***************************************************************************)
\* all(...) that rejects the empty list.
AllMatchNonEmpty(vr) == vr # << >> /\ \A i \in 1..Len(vr) : vr[i]

\* all(v.is_match for v in validation_results) (line 257)
AllMatch(vr) == \A i \in 1..Len(vr) : vr[i]

\* Line 209: range(1, max_retries + 1) holds an attempt after attempt att.
MoreAttemptsOffByOne(att, maxr) == att <= maxr

MoreAttempts(att, maxr) == att < maxr

\* Lines 256-267: success and break, or a retry, or failure.
\* break_loop tells whether the for loop is left by the break of line 260.
AfterValidationAnyMatch(r, vr, att, maxr) ==
    IF \E i \in 1..Len(vr) : vr[i]
    THEN [result |-> MarkSuccess(r), break_loop |-> TRUE]
    ELSE IF att < maxr
         THEN [result |-> [r EXCEPT !.retry_count = att], break_loop |-> FALSE]
         ELSE [result |-> MarkFailed(r), break_loop |-> FALSE]

AfterValidation(r, vr, att, maxr) ==
    IF AllMatch(vr)
    THEN [result |-> MarkSuccess(r), break_loop |-> TRUE]
    ELSE IF att < maxr
         THEN [result |-> [r EXCEPT !.retry_count = att], break_loop |-> FALSE]
         ELSE [result |-> MarkFailed(r), break_loop |-> FALSE]

\* Lines 269-274: the except clause.
ExceptHandlerNoFailure(r, att, maxr) == [r EXCEPT !.retry_count = att]

ExceptHandler(r, att, maxr) ==
    LET r1 == IF att >= maxr THEN MarkFailed(r) ELSE r
    IN  [r1 EXCEPT !.retry_count = att]

\* Lines 153-155 of migrate_all: a successful result marks the graph node.
UpdateGraphAnyStatus(g, r) == MarkAsConverted(g, r.program_id)

UpdateGraph(g, r) ==
    IF r.status = "success" THEN MarkAsConverted(g, r.program_id) ELSE g

(***************************************************************************)
(* DependenciesAnalysis (src/src/core/dependencies_analysis.py).  A graph  *)
(* is a dict from a file to the set of the files it includes.  Iterating a *)
(* set of strings follows their hashes, which differ from one process to   *)
(* the next, and is the same at every iteration of one set object: deps[u] *)
(* is the set graph[u] as the list of its elements in iteration order.     *)
(* The keys are in the order of the sorted files the graph is built from.  *)
(***************************************************************************)
\* The lists that hold every element of the finite set S once.
Perms(S) == {s \in [1..Cardinality(S) -> S] : Range(s) = S}

\* The graphs over Files: a key may include itself, a file that is no key, ...
IncludeGraphs ==
    UNION {{[keys |-> SortedFiles(K), deps |-> d] :
                d \in [K -> UNION {Perms(S) : S \in SUBSET Files}]} :
           K \in SUBSET Files}

EmptyIncludeGraph == [keys |-> << >>, deps |-> << >>]

\* graph.get(u, set()), in iteration order
GraphGet(g, u) == IF u \in Range(g.keys) THEN g.deps[u] ELSE << >>

\* find_cycles_dfs line 63: color = {u: WHITE for u in graph}; ABSENT: no entry.
InitialColor(g) ==
    [n \in Files |-> IF n \in Range(g.keys) THEN "WHITE" ELSE "ABSENT"]

\* find_cycles_dfs lines 66-80: dfs(u, stack) on st = [color, cycles]; the callee
\* works on a copy of the stack.
RECURSIVE CyclesDfs(_, _, _, _), CyclesDfsLoop(_, _, _, _, _)
CyclesDfs(g, u, stack, st) ==
    LET st1 == [st EXCEPT !.color[u] = "GRAY"]
        st2 == CyclesDfsLoop(g, u, Append(stack, u), 1, st1)
    IN  [st2 EXCEPT !.color[u] = "BLACK"]

\* Lines 69-78: the loop "for v in graph.get(u, set())" from position i on.
CyclesDfsLoop(g, u, stack, i, st) ==
    IF i > Len(GraphGet(g, u)) THEN st
    ELSE LET v == GraphGet(g, u)[i]
             st1 == IF st.color[v] = "ABSENT" THEN [st EXCEPT !.color[v] = "WHITE"] ELSE st
             st2 == IF st1.color[v] = "WHITE"
                    THEN CyclesDfs(g, v, stack, st1)
                    ELSE IF st1.color[v] = "GRAY" /\ v \in Range(stack)
                         THEN [st1 EXCEPT !.cycles =
                                  Append(@, SubSeq(stack, IndexOf(stack, v), Len(stack))
                                                \o << v >>)]
                         ELSE st1
         IN  CyclesDfsLoop(g, u, stack, i + 1, st2)

\* Lines 82-84: the loop over the keys from position i on.
RECURSIVE CyclesDfsRoots(_, _, _)
CyclesDfsRoots(g, i, st) ==
    IF i > Len(g.keys) THEN st
    ELSE CyclesDfsRoots(g, i + 1,
                        IF st.color[g.keys[i]] = "WHITE"
                        THEN CyclesDfs(g, g.keys[i], << >>, st)
                        ELSE st)

\* DependenciesAnalysis.find_cycles_dfs
FindCyclesDfs(g) ==
    CyclesDfsRoots(g, 1, [color |-> InitialColor(g), cycles |-> << >>]).cycles

\* topological_sort lines 90-92: the keys and every include target.
TopoNodes(g) == Range(g.keys) \cup UNION {Range(g.deps[u]) : u \in Range(g.keys)}

\* topological_sort lines 94-97: indeg[v] counts the keys that include v.
TopoInDegreeCapped(g) ==
    [v \in TopoNodes(g) |->
        IF \E u \in Range(g.keys) : v \in Range(g.deps[u]) THEN 1 ELSE 0]

TopoInDegree(g) ==
    [v \in TopoNodes(g) |->
        Cardinality({u \in Range(g.keys) : v \in Range(g.deps[u])})]

\* topological_sort line 110: len(order) != len(nodes)
TopoIncompleteKeysOnly(g, order) == Len(order) # Len(g.keys)

TopoIncomplete(g, order) == Len(order) # Cardinality(TopoNodes(g))

NoTopo == [indeg |-> << >>, q |-> << >>, order |-> << >>, todo |-> << >>]

\* order_none: topological_sort returned None as its order.
NoAnalysisOut ==
    [cycles |-> << >>, order |-> << >>, order_none |-> FALSE, topo_cycles |-> << >>]

\* No DependenciesAnalysis call is running or was made.
AnalysisIdle ==
    /\ include_graph = EmptyIncludeGraph
    /\ analysis_pc = "idle"
    /\ topo = NoTopo
    /\ analysis_out = NoAnalysisOut

(***************************************************************************)
(* RateLimiter (src/src/converter/gemini_c_to_csharp_converter.py).  The   *)
(* pool threads of _process_chunks_with_dependencies share one RateLimiter *)
(* and no lock: a thread may be preempted between any two statements of    *)
(* wait_if_needed.                                                         *)
(***************************************************************************)
\* max_requests_per_minute: int = 1
DefaultMaxRequestsPerMinute == 1

\* "current_time - ts < 60" and "60 - (...)" of wait_if_needed
WindowSeconds == 60

\* "+ 1  # +1 second buffer"
BufferSeconds == 1

Workers == 1..MaxWorkers

\* Lines 34-37: the timestamps younger than one minute at current_time.
RecentTimestamps(timestamps, current_time) ==
    SelectSeq(timestamps, LAMBDA ts : current_time - ts < WindowSeconds)

\* Line 40: the limit is reached.
AtLimit(timestamps, limit) == Len(timestamps) >= limit

\* min(self.requests_timestamps) of a non-empty list
MinTimestamp(timestamps) ==
    CHOOSE m \in Range(timestamps) : \A x \in Range(timestamps) : m <= x

\* Line 42: wait_time
WaitTime(timestamps, current_time) ==
    WindowSeconds - (current_time - MinTimestamp(timestamps)) + BufferSeconds

\* A thread outside wait_if_needed that has made no call yet.
IdleWorker ==
    [pc |-> "idle", current_time |-> 0, filtered |-> << >>, wake_at |-> 0, calls |-> 0]

\* A RateLimiter as constructed by default, and no thread in it.
LimiterIdle ==
    /\ clock = 0
    /\ max_requests_per_minute = DefaultMaxRequestsPerMinute
    /\ requests_timestamps = << >>
    /\ worker = [w \in Workers |-> IdleWorker]
    /\ admissions = << >>

(***************************************************************************)
(* GeminiCToCSharpConverter._convert_chunk_with_gemini and the quota       *)
(* handling of the RateLimiter.                                            *)
(***************************************************************************)
\* RateLimiter(max_requests_per_minute, max_retries=3) of the converter
ConverterMaxRetries == 3

\* _extract_retry_delay returns None
NoDelay == -1

Min2(x, y) == IF x <= y THEN x ELSE y

RECURSIVE Pow2(_)
Pow2(n) == IF n = 0 THEN 1 ELSE 2 * Pow2(n - 1)

\* What one pass of the try block meets.  A response has a status, a body with or
\* without a usable candidate, a text that holds "429" and "quota" or not, and
\* the delays its text suggests, in tenths of a second: retry_info is the
\* retryDelay of a RetryInfo detail, retry_text the "retry in Ns" of the message.
HttpResponse(status, candidates, quota, retry_info, retry_text) ==
    [kind |-> "response", status |-> status, candidates |-> candidates,
     quota |-> quota, retry_info |-> retry_info, retry_text |-> retry_text]

\* An exception: in _create_conversion_prompt (no request is made) or in
\* requests.post / response.json (a request was made).
Raised(kind) ==
    [kind |-> kind, status |-> 0, candidates |-> FALSE, quota |-> FALSE,
     retry_info |-> NoDelay, retry_text |-> NoDelay]

NoResponse == Raised("none")

Responses ==
    {HttpResponse(200, TRUE, FALSE, NoDelay, NoDelay),
     HttpResponse(200, FALSE, FALSE, NoDelay, NoDelay),
     HttpResponse(200, FALSE, TRUE, NoDelay, NoDelay),
     HttpResponse(200, FALSE, TRUE, SuggestedTenths, NoDelay),
     HttpResponse(200, FALSE, TRUE, NoDelay, TextTenths),
     HttpResponse(429, FALSE, TRUE, NoDelay, NoDelay),
     HttpResponse(429, FALSE, TRUE, SuggestedTenths, NoDelay),
     HttpResponse(429, FALSE, FALSE, NoDelay, NoDelay),
     HttpResponse(500, FALSE, FALSE, NoDelay, NoDelay),
     Raised("prompt_error"),
     Raised("transport_error")}

\* _extract_retry_delay: int() of a retryDelay that is a whole number of seconds
\* (int() of any other raises, which the bare except swallows); else
\* int(float()) of the "retry in Ns" match; else None.
ExtractRetryDelay(resp) ==
    IF resp.retry_info # NoDelay /\ resp.retry_info % 10 = 0
    THEN resp.retry_info \div 10
    ELSE IF resp.retry_text # NoDelay
         THEN resp.retry_text \div 10
         ELSE NoDelay

\* RateLimiter.handle_quota_error(response.text, attempt): whether to retry, and
\* the seconds slept before returning True.
HandleQuotaError(resp, attempt_no, maxr) ==
    IF resp.quota
    THEN IF attempt_no < maxr
         THEN [retry |-> TRUE,
               sleep |-> IF ExtractRetryDelay(resp) = NoDelay
                         THEN Min2(60 * Pow2(attempt_no), 300)
                         ELSE ExtractRetryDelay(resp)]
         ELSE [retry |-> FALSE, sleep |-> 0]
    ELSE [retry |-> FALSE, sleep |-> 0]

\* GeminiResponse: success and explanation (the code, the tokens and the time of
\* the response decide nothing here).
GeminiResponse(success, explanation) ==
    [success |-> success, explanation |-> explanation]

NoGeminiResponse == GeminiResponse(FALSE, "none")

\* Line 412: range(max_retries + 1) holds the attempt.
InRetryRangeOneMore(attempt_no, maxr) == attempt_no <= maxr + 1

InRetryRange(attempt_no, maxr) == attempt_no <= maxr

\* Lines 413-506: one pass of the loop body that met resp.  continue_loop: the
\* loop goes on to its next attempt; sleep: the seconds slept in this pass.
\* The error handling of lines 471-486 is inside the block of
\* "if response.status_code == 200": a response with another status runs none of
\* it and the pass ends without a statement.
ChunkIteration(resp, attempt_no, maxr) ==
    IF resp.kind # "response"
    THEN IF attempt_no < maxr
         THEN [continue_loop |-> TRUE, sleep |-> Min2(Pow2(attempt_no), 30),
               response |-> NoGeminiResponse]
         ELSE [continue_loop |-> FALSE, sleep |-> 0,
               response |-> GeminiResponse(FALSE, "Request failed")]
    ELSE IF resp.status = 200
         THEN IF resp.candidates
              THEN [continue_loop |-> FALSE, sleep |-> 0,
                    response |-> GeminiResponse(TRUE, "Successfully converted with Gemini")]
              ELSE LET h == HandleQuotaError(resp, attempt_no, maxr)
                   IN  IF h.retry
                       THEN [continue_loop |-> TRUE, sleep |-> h.sleep,
                             response |-> NoGeminiResponse]
                       ELSE [continue_loop |-> FALSE, sleep |-> 0,
                             response |-> GeminiResponse(FALSE, "Gemini API error")]
         ELSE [continue_loop |-> TRUE, sleep |-> 0, response |-> NoGeminiResponse]

\* No _convert_chunk_with_gemini call is running.
IdleChunkCall ==
    [pc |-> "idle", attempt |-> 0, requests |-> 0, last |-> NoResponse,
     slept |-> 0, response |-> NoGeminiResponse]

ChunkIdle ==
    /\ limiter_max_retries = ConverterMaxRetries
    /\ chunk_call = IdleChunkCall
    /\ chunks_done = 0

(***************************************************************************)
(* GeminiCToCSharpConverter._convert_chunk_with_cache and the cache files. *)
(***************************************************************************)
\* ConversionChunk: the fields of the key and one field (priority) outside it.
ConversionChunks ==
    [chunk_type : {"function"}, chunk_id : {"func_f", "func_g"},
     content : {"int f(void)", "long f(void)"}, priority : {5, 9}]

\* hashlib.md5(content.encode()).hexdigest(): a function of the content alone,
\* different for the contents of the model.
Md5(content) == << "md5", content >>

\* The three fields that the cache is addressed by.
ChunkTriple(chunk) == << chunk.chunk_type, chunk.chunk_id, chunk.content >>

GenerateCacheKeyWithPriority(chunk) ==
    << chunk.chunk_type, chunk.chunk_id, Md5(chunk.content), chunk.priority >>

\* _generate_cache_key: f"{chunk_type}_{chunk_id}_{content_hash}"
GenerateCacheKey(chunk) ==
    << chunk.chunk_type, chunk.chunk_id, Md5(chunk.content) >>

CacheKeys == {GenerateCacheKey(chunk) : chunk \in ConversionChunks}

\* The GeminiResponse fields that tell two responses apart.
ChunkResponse(success, converted_code, explanation) ==
    [success |-> success, converted_code |-> converted_code,
     explanation |-> explanation]

NoChunkResponse == ChunkResponse(FALSE, "", "none")

\* What _convert_chunk_with_gemini can return, and the HTTP requests it made.
GeminiOutcomes ==
    [response : {ChunkResponse(TRUE, "class A { int f() }", "converted"),
                 ChunkResponse(TRUE, "class A { long f() }", "converted"),
                 ChunkResponse(FALSE, "", "All retry attempts failed")},
     requests : {1, ConverterMaxRetries + 1}]

\* A cache file: missing, not loadable, or the json.dump of asdict(response).
NoFile == [state |-> "missing", data |-> NoChunkResponse]

UnreadableFile == [state |-> "unreadable", data |-> NoChunkResponse]

\* json.dump(asdict(response), f): every field is a bool, a string, a list of
\* strings, an int or a float, which JSON holds exactly.
DumpedFile(response) == [state |-> "json", data |-> response]

\* GeminiResponse(**json.load(f))
LoadedResponse(file) == file.data

\* Lines 382-390: the file exists and loads.
CacheHit(file) == file.state = "json"

\* How the write of lines 397-399 ends: the file is written; open() raises; or
\* the file is opened (and so truncated) and the dump raises.
WriteOutcomes == {"written", "open_raised", "dump_raised"}

NoCacheCall ==
    [chunk_triple |-> << >>, persisted_before |-> NoChunkResponse,
     response |-> NoChunkResponse, requests |-> 0, hit |-> FALSE]

CacheIdle ==
    /\ cache_files = [k \in CacheKeys |-> NoFile]
    /\ persisted = [c \in {ChunkTriple(chunk) : chunk \in ConversionChunks} |-> NoChunkResponse]
    /\ cache_call = NoCacheCall
    /\ cache_calls = 0

(***************************************************************************)
(* HybridCToCSharpConverter (src/src/converter/hybrid_converter.py).       *)
(***************************************************************************)
\* _validate_gemini_output: len(code.strip()) < 50
MinValidLength == 50

\* A C# text, by what the validation reads of it: the length of code.strip()
\* and whether it contains "using System", "public class" and "}".  A text is at
\* least as long as the elements it contains.
CSharpTexts ==
    {c \in [stripped_len : {0, MinValidLength - 1, MinValidLength},
            using_system : BOOLEAN, public_class : BOOLEAN, closing_brace : BOOLEAN] :
        c.stripped_len = 0 => ~(c.using_system \/ c.public_class \/ c.closing_brace)}

NoText ==
    [stripped_len |-> 0, using_system |-> FALSE, public_class |-> FALSE,
     closing_brace |-> FALSE]

\* What gemini_converter.convert(program) does: returns a text, raises the
\* ValueError of a missing API key, or raises another exception.
GeminiConvertOutcomes ==
    [kind : {"code"}, code : CSharpTexts]
        \cup {[kind |-> k, code |-> NoText] : k \in {"ValueError", "Exception"}}

\* What rule_converter.convert(program) does.
RuleConvertOutcomes == {"code", "Exception"}

\* The converter was not called.
GeminiNotCalled == [kind |-> "not called", code |-> NoText]

RulesNotCalled == "not called"

\* The CPrograms given to convert: what the emergency stub reads of them is
\* their functions.
HybridPrograms == 0..MaxFunctions

ValidateGeminiOutputAlways(code) == TRUE

\* _validate_gemini_output (lines 132-148)
ValidateGeminiOutput(code) ==
    /\ ~(code.stripped_len = 0 \/ code.stripped_len < MinValidLength)
    /\ code.using_system
    /\ code.public_class
    /\ code.closing_brace

\* _emergency_conversion (lines 150-173): a class with one stub per function.
EmergencyConversion(program) == [from |-> "emergency", code |-> << "stubs", program >>]

NoHybridCall ==
    [program |-> 0, gemini |-> GeminiNotCalled, rules |-> RulesNotCalled,
     ended |-> "none", returned |-> [from |-> "none", code |-> << >>]]

\* Lines 653-694 of gemini_c_to_csharp_converter.py: the seven lines that
\* _assemble_csharp_code emits around the chunks hold 78 characters.
AssembledFrameLength == 78

\* The chunk responses of one GeminiCToCSharpConverter.convert: the functions
\* of the program (each one chunk func_<name>) and those whose response has
\* success = False.
NoChunkResults == [functions |-> {}, failed |-> {}, assembled |-> {}]

\* _assemble_csharp_code (lines 649-698 of gemini_c_to_csharp_converter.py): the
\* usings, the class header, the converted_code of every chunk that is present
\* and successful, the closing brace.  A chunk whose response failed is left
\* out.
AssembledFunctions(functions, failed) == functions \ failed

\* The text of the assembly as the validation reads it; every chunk adds at
\* least the six characters of its indentation and its two line ends.
AssembledText(functions, failed) ==
    [stripped_len |-> AssembledFrameLength
                        + 6 * Cardinality(AssembledFunctions(functions, failed)),
     using_system |-> TRUE, public_class |-> TRUE, closing_brace |-> TRUE]

\* What convert returns, given what the two converters do.
HybridConvertResult(program, gemini, rules) ==
    LET valid == /\ hybrid.use_gemini
                 /\ gemini.kind = "code"
                 /\ ValidateGeminiOutput(gemini.code)
        rule_called == ~valid /\ hybrid.fallback_to_rules
    IN  [program |-> program,
         gemini |-> IF hybrid.use_gemini THEN gemini ELSE GeminiNotCalled,
         rules |-> IF rule_called THEN rules ELSE RulesNotCalled,
         ended |-> "returned",
         returned |->
             IF valid
             THEN [from |-> "gemini", code |-> gemini.code]
             ELSE IF rule_called /\ rules = "code"
                  THEN [from |-> "rules", code |-> << "rule-based", program >>]
                  ELSE EmergencyConversion(program)]

HybridIdle ==
    /\ hybrid = [use_gemini |-> FALSE, fallback_to_rules |-> TRUE]
    /\ hybrid_call = NoHybridCall
    /\ chunk_results = NoChunkResults

(***************************************************************************)
(* OutputValidator (src/src/validator/output_validator.py).                *)
(***************************************************************************)
\* Output values.  A number is finite, an infinity or NaN; a finite number is
\* held in units of 10^-7, so that float_tolerance (10^-6) is ten units.  The
\* rounding of binary floating point is left out.
UnitsPerOne == 10000000

\* OutputValidator.float_tolerance in units: 1e-6
FloatToleranceUnits == 10

\* tolerance = max_val * float_tolerance: one unit of tolerance per 10^6 units
ToleranceDivisor == 1000000

IntValue(n) == [type |-> "int", class |-> "finite", units |-> n * UnitsPerOne]

FloatUnits(u) == [type |-> "float", class |-> "finite", units |-> u]

StrValue == [type |-> "str", class |-> "text", units |-> 0]

NaN == [type |-> "float", class |-> "nan", units |-> 0]

PlusInf == [type |-> "float", class |-> "inf", units |-> 1]

MinusInf == [type |-> "float", class |-> "inf", units |-> -1]

\* 1, "a", nan, +inf, -inf, 2.0, 2.000001
OutputValues ==
    {IntValue(1), StrValue, NaN, PlusInf, MinusInf,
     FloatUnits(2 * UnitsPerOne), FloatUnits(2 * UnitsPerOne + FloatToleranceUnits)}

Abs(x) == IF x < 0 THEN -x ELSE x

\* abs(c_val - cs_val) in IEEE arithmetic; the two infinities of one sign never
\* reach this line.
FloatAbsDiff(c_val, cs_val) ==
    IF c_val.class = "nan" \/ cs_val.class = "nan"
    THEN NaN
    ELSE IF c_val.class = "inf" \/ cs_val.class = "inf"
         THEN IF c_val.class = "inf" /\ cs_val.class = "inf" /\ c_val.units = cs_val.units
              THEN NaN
              ELSE PlusInf
         ELSE FloatUnits(Abs(c_val.units - cs_val.units))

\* x > y of Python floats: False when either is NaN.
FloatGreater(x, y) ==
    /\ x.class # "nan" /\ y.class # "nan"
    /\ IF x.class = "inf"
       THEN x.units = 1 /\ ~(y.class = "inf" /\ y.units = 1)
       ELSE IF y.class = "inf" THEN y.units = -1 ELSE x.units > y.units

\* x <= y of Python floats: False when either is NaN.
FloatLeq(x, y) ==
    /\ x.class # "nan" /\ y.class # "nan"
    /\ ~FloatGreater(x, y)

\* abs(x)
FloatAbs(x) ==
    IF x.class = "finite" THEN FloatUnits(Abs(x.units))
    ELSE IF x.class = "inf" THEN PlusInf ELSE NaN

\* max(a, b) of Python: b when b > a, else a.
FloatMax(a, b) == IF FloatGreater(b, a) THEN b ELSE a

\* Lines 262-266: max_val * float_tolerance when max_val > 1.0, else
\* float_tolerance.
FloatTolerance(max_val) ==
    IF FloatGreater(max_val, FloatUnits(UnitsPerOne))
    THEN IF max_val.class = "inf" THEN PlusInf
         ELSE FloatUnits(max_val.units \div ToleranceDivisor)
    ELSE FloatUnits(FloatToleranceUnits)

\* _compare_floats (lines 222-294): is_match.
CompareFloats(c_value, csharp_value) ==
    LET c_val == [c_value EXCEPT !.type = "float"]
        cs_val == [csharp_value EXCEPT !.type = "float"]
    IN  IF c_val.class = "nan" /\ cs_val.class = "nan" THEN TRUE
        ELSE IF /\ c_val.class = "inf" /\ cs_val.class = "inf"
                /\ FloatGreater(c_val, FloatUnits(0)) = FloatGreater(cs_val, FloatUnits(0))
             THEN TRUE
             ELSE FloatLeq(FloatAbsDiff(c_val, cs_val),
                           FloatTolerance(FloatMax(FloatAbs(c_val), FloatAbs(cs_val))))

\* _compare_values (lines 168-220): is_match.
CompareValues(c_value, csharp_value) ==
    IF /\ c_value.type # csharp_value.type
       /\ ~(c_value.type \in {"int", "float"} /\ csharp_value.type \in {"int", "float"})
    THEN FALSE
    ELSE IF c_value.type = "float" \/ csharp_value.type = "float"
         THEN CompareFloats(c_value, csharp_value)
         ELSE c_value = csharp_value

\* The outputs of a TestResult: a dict over some of the output names.
OutputNames == {"result", "out"}

Outputs ==
    {o \in UNION {[names -> OutputValues] : names \in SUBSET OutputNames} :
        "out" \in DOMAIN o => o["out"] = IntValue(1)}

\* c_results.get(test_id): None, or a TestResult with its outputs.
MissingResult == [present |-> FALSE, outputs |-> << >>]

TestResults == {MissingResult} \cup [present : {TRUE}, outputs : Outputs]

\* Lines 100-137, the outputs counted as different: with the mutation only the
\* outputs found on both sides are counted.
DifferentOutputsComparedOnly(c_outputs, csharp_outputs) ==
    {key \in DOMAIN c_outputs \cap DOMAIN csharp_outputs :
        ~CompareValues(c_outputs[key], csharp_outputs[key])}

DifferentOutputs(c_outputs, csharp_outputs) ==
    {key \in DOMAIN c_outputs \cup DOMAIN csharp_outputs :
        \/ key \notin DOMAIN c_outputs
        \/ key \notin DOMAIN csharp_outputs
        \/ ~CompareValues(c_outputs[key], csharp_outputs[key])}

\* Lines 134-135, the outputs counted as matching.
MatchingOutputs(c_outputs, csharp_outputs) ==
    {key \in DOMAIN c_outputs \cap DOMAIN csharp_outputs :
        CompareValues(c_outputs[key], csharp_outputs[key])}

\* Lines 64-147 with the mutation: is_match does not ask for an output.
ValidateTestCaseVacuous(c_result, csharp_result) ==
    IF ~c_result.present \/ ~csharp_result.present
    THEN [is_match |-> FALSE, total_outputs |-> 0, matching_outputs |-> 0,
          different_outputs |-> 0, differences |-> {"test_execution"}]
    ELSE LET all_keys == DOMAIN c_result.outputs \cup DOMAIN csharp_result.outputs
             different == DifferentOutputs(c_result.outputs, csharp_result.outputs)
             matching == MatchingOutputs(c_result.outputs, csharp_result.outputs)
         IN  [is_match |-> Cardinality(different) = 0,
              total_outputs |-> Cardinality(all_keys),
              matching_outputs |-> Cardinality(matching),
              different_outputs |-> Cardinality(different),
              differences |-> different]

\* Lines 64-147: the ValidationResult of one test case.
ValidateTestCase(c_result, csharp_result) ==
    IF ~c_result.present \/ ~csharp_result.present
    THEN [is_match |-> FALSE, total_outputs |-> 0, matching_outputs |-> 0,
          different_outputs |-> 0, differences |-> {"test_execution"}]
    ELSE LET all_keys == DOMAIN c_result.outputs \cup DOMAIN csharp_result.outputs
             different == DifferentOutputs(c_result.outputs, csharp_result.outputs)
             matching == MatchingOutputs(c_result.outputs, csharp_result.outputs)
         IN  [is_match |-> Cardinality(different) = 0 /\ Cardinality(all_keys) > 0,
              total_outputs |-> Cardinality(all_keys),
              matching_outputs |-> Cardinality(matching),
              different_outputs |-> Cardinality(different),
              differences |-> different]

\* validate (lines 43-166): one ValidationResult per test case of the suite.
Validate(suite) == [i \in 1..Len(suite) |-> ValidateTestCase(suite[i].c, suite[i].csharp)]

NotValidated == [called |-> FALSE, results |-> << >>]

ValidatorIdle ==
    /\ validator_in = << >>
    /\ validator_out = NotValidated

(***************************************************************************)
(* CTestRunner and CSharpTestRunner (src/src/test_runner): run_tests and   *)
(* _parse_test_output, which are the same in the two runners but for the   *)
(* texts of the messages.                                                  *)
(***************************************************************************)
\* TestResult(test_case_id=...): the fresh result of test_case.py lines 55-73.
NewTestResult(test_case_id) ==
    [test_case_id |-> test_case_id, status |-> "pending", success |-> FALSE,
     error_message |-> "", outputs |-> {}, completed_at |-> FALSE,
     standard_output |-> << >>, standard_error |-> "", exit_code |-> -1]

\* TestResult.mark_error with the mutation: completed_at is not set.
TestMarkErrorNoTimestamp(test_result, error) ==
    [test_result EXCEPT !.status = "error", !.success = FALSE, !.error_message = error]

\* TestResult.mark_error (test_case.py lines 92-97)
TestMarkError(test_result, error) ==
    [test_result EXCEPT !.status = "error", !.success = FALSE,
                   !.error_message = error, !.completed_at = TRUE]

\* TestResult.mark_success (test_case.py lines 75-80)
TestMarkSuccess(test_result, outputs) ==
    [test_result EXCEPT !.status = "passed", !.success = TRUE,
                   !.outputs = outputs, !.completed_at = TRUE]

\* TestResult.mark_failure (test_case.py lines 82-90)
TestMarkFailure(test_result, error, outputs) ==
    [test_result EXCEPT !.status = "failed", !.success = FALSE, !.error_message = error,
                   !.outputs = IF outputs # {} THEN outputs ELSE @,
                   !.completed_at = TRUE]

\* What the stdout of the harness holds for one test case: the protocol lines
\* "Test <name>: result = <value>" and "Test <name>: completed", or neither.
ProtocolLines == SUBSET {"test_result", "completed"}

\* The keys of the outputs dict parsed from the lines of one test case
\* (c_test_runner.py lines 245-262).
ParsedOutputs(lines) ==
    {IF line = "test_result" THEN "return_value" ELSE "completed" : line \in lines}

\* _parse_test_output (c_test_runner.py lines 205-272, csharp_test_runner.py
\* lines 568-639): the result of the test case test_case_id.
ParseTestOutput(test_case_id, stdout, stderr, exit_code) ==
    LET test_result == [NewTestResult(test_case_id) EXCEPT
                       !.standard_output = stdout, !.standard_error = stderr,
                       !.exit_code = exit_code]
        outputs == ParsedOutputs(stdout[test_case_id])
    IN  IF outputs # {} \/ exit_code = 0
        THEN TestMarkSuccess(test_result, outputs)
        ELSE TestMarkFailure(test_result, "No output found or non-zero exit code", outputs)

\* How compile ends: return code 0, another return code, a timeout, or an
\* exception; it returns True in the first case only.
CompileOutcomes == {"ok", "failed", "timeout", "exception"}

\* How subprocess.run of the binary ends.
RunOutcomes == {"ran", "timeout", "exception"}

\* run_tests (c_test_runner.py lines 116-203, csharp_test_runner.py lines
\* 454-566): the dict of results, for a suite whose test cases have the ids
\* 1..Len(stdout); stdout holds the protocol lines of each of them.
RunTests(runner, compile, run, stdout, exit_code) ==
    LET ids == 1..Len(stdout)
        message(c_text, csharp_text) == IF runner = "c" THEN c_text ELSE csharp_text
    IN  IF compile # "ok"
        THEN [id \in ids |-> TestMarkError(NewTestResult(id),
                 message("Compilation failed", "C# compilation failed"))]
        ELSE IF run = "timeout"
             THEN [id \in ids |-> TestMarkError(NewTestResult(id),
                      message("Execution timeout", "C# execution timeout"))]
             ELSE IF run = "exception"
                  THEN [id \in ids |-> TestMarkError(NewTestResult(id),
                           message("Execution error", "C# execution error"))]
                  ELSE [id \in ids |-> ParseTestOutput(id, stdout, "stderr", exit_code)]

NoRunnerInput ==
    [runner |-> "c", compile |-> "ok", run |-> "ran", stdout |-> << >>, exit_code |-> 0]

NotRun == [called |-> FALSE, results |-> << >>]

RunnerIdle ==
    /\ runner_in = NoRunnerInput
    /\ runner_out = NotRun

(***************************************************************************)
(* TestGenerator and InputGenerator (src/src/test_generator), fed by the   *)
(* functions that _parse_c_programs builds from a C source.                *)
(***************************************************************************)
\* seed: int = 42 of TestGenerator.__init__; the orchestrator constructs
\* TestGenerator() without arguments.
DefaultSeed == 42

\* The global generator of the random module, as a linear congruential
\* generator of full period: the state is a residue and every draw advances it.
RandomMultiplier == 5

RandomIncrement == 3

RandomModulus == 256

\* random.seed(seed) of InputGenerator.__init__
RandomSeed(seed_value) == seed_value % RandomModulus

\* One draw of the global generator: the state after it.
NextRandom(state) == (RandomMultiplier * state + RandomIncrement) % RandomModulus

\* The parameter types of the model.
DataTypes == {"char", "unsigned char"}

\* The functions of a C source: the name of each function_definition, whether
\* it is declared static, and the types of its parameters.  main is never static.
SourceFunctionSet ==
    {f \in [name : {"main", "f", "helper"}, static : BOOLEAN,
            parameters : UNION {[1..n -> DataTypes] : n \in 0..MaxParameters}] :
        f.name = "main" => ~f.static}

SourceFiles ==
    {s \in UNION {[1..n -> SourceFunctionSet] : n \in 0..MaxSourceFunctions} :
        \A i, j \in 1..Len(s) : i # j => s[i].name # s[j].name}

\* _parse_c_programs, the CFunction built for each function that walk_functions
\* yields: name and parameters come from the source, is_static is not passed
\* and keeps the default of the dataclass, False.
ParseFunctions(source) ==
    [i \in 1..Len(source) |->
        [name |-> source[i].name, parameters |-> source[i].parameters,
         is_static |-> FALSE]]

\* InputGenerator.generate_boundary_values for the char types
GenerateBoundaryValues(data_type) ==
    IF data_type = "unsigned char" THEN << 0, 1, 65, 90, 97, 122, 255 >>
    ELSE << -128, 0, 32, 65, 90, 97, 122, 127 >>

\* InputGenerator.generate_edge_cases: "int" is not in the type; an unsigned
\* type gets [0, -1], a plain char gets nothing.
GenerateEdgeCases(data_type) ==
    IF data_type = "unsigned char" THEN << 0, -1 >> ELSE << >>

\* InputGenerator.generate_random_values: count draws of the global generator,
\* random.randint(0, 255) or random.randint(-128, 127).
RECURSIVE GenerateRandomValues(_, _, _)
GenerateRandomValues(data_type, count, state) ==
    IF count = 0 THEN [values |-> << >>, state |-> state]
    ELSE LET drawn == NextRandom(state)
             val == IF data_type = "unsigned char" THEN drawn ELSE drawn - 128
             rest == GenerateRandomValues(data_type, count - 1, drawn)
         IN  [values |-> << val >> \o rest.values, state |-> rest.state]

\* Lines 197-213 of generate_combinations: the values of each parameter in
\* turn, the random ones drawn in the order of the parameters.
RECURSIVE ParamValues(_, _, _)
ParamValues(parameters, strategy, state) ==
    IF parameters = << >> THEN [values |-> << >>, state |-> state]
    ELSE LET first == CASE strategy = "boundary" ->
                               [values |-> GenerateBoundaryValues(Head(parameters)),
                                state |-> state]
                        [] strategy = "edge" ->
                               [values |-> GenerateEdgeCases(Head(parameters)),
                                state |-> state]
                        [] strategy = "random" ->
                               GenerateRandomValues(Head(parameters), 5, state)
             rest == ParamValues(Tail(parameters), strategy, first.state)
         IN  [values |-> << first.values >> \o rest.values, state |-> rest.state]

\* Lines 219-230: one combination per value of each parameter, the other
\* parameters at _get_default_value, which is 0 for a char.
RECURSIVE OneAtATime(_, _, _)
OneAtATime(param_values, p, n) ==
    IF p > n THEN << >>
    ELSE [k \in 1..Len(param_values[p]) |->
              [q \in 1..n |-> IF q = p THEN param_values[p][k] ELSE 0]]
         \o OneAtATime(param_values, p + 1, n)

\* Lines 233-244: all minimum and all maximum values, of the parameters that
\* have values.
MinMaxInputs(param_values, n) ==
    << [q \in {r \in 1..n : param_values[r] # << >>} |-> param_values[q][1]],
       [q \in {r \in 1..n : param_values[r] # << >>} |->
            param_values[q][Len(param_values[q])]] >>

\* InputGenerator.generate_combinations: the combinations and the state in
\* which it leaves the global generator.
GenerateCombinations(function, strategy, state) ==
    IF function.parameters = << >>
    THEN [combinations |-> << << >> >>, state |-> state]
    ELSE LET n == Len(function.parameters)
             pv == ParamValues(function.parameters, strategy, state)
         IN  [combinations |->
                  OneAtATime(pv.values, 1, n)
                  \o (IF strategy = "boundary" THEN MinMaxInputs(pv.values, n)
                      ELSE << >>),
              state |-> pv.state]

\* TestGenerator._generate_tests_for_function: one TestCase per combination.
GenerateTestsForFunction(function, strategy, state) ==
    LET gc == GenerateCombinations(function, strategy, state)
    IN  [tests |-> [k \in 1..Len(gc.combinations) |->
                        [name |-> << function.name, strategy, k >>,
                         function_name |-> function.name,
                         inputs |-> gc.combinations[k], category |-> strategy]],
         state |-> gc.state]

\* SymbolicTestGenerator.generate_tests for one function: the test cases that
\* KLEE produced, converted by _klee_to_test_case.
SymbolicTests(function, klee_tests) ==
    [k \in 1..klee_tests |->
        [name |-> << function.name, "symbolic", k >>,
         function_name |-> function.name, inputs |-> << >>,
         category |-> "symbolic"]]

\* Lines 69-74 of generate_tests: the default strategies.
DefaultStrategies(klee) ==
    IF klee THEN << "symbolic", "boundary" >> ELSE << "boundary", "edge", "random" >>

\* Line 91 of generate_tests: the functions to test when no name is given.
RECURSIVE FunctionsToTest(_)
FunctionsToTest(functions) ==
    IF functions = << >> THEN << >>
    ELSE (IF ~Head(functions).is_static /\ Head(functions).name # "main"
          THEN << Head(functions) >> ELSE << >>)
         \o FunctionsToTest(Tail(functions))

\* Lines 97-118: the strategies of one function in turn.
RECURSIVE StrategyTests(_, _, _, _)
StrategyTests(function, strategies, klee_tests, state) ==
    IF strategies = << >> THEN [tests |-> << >>, state |-> state]
    ELSE LET first == IF Head(strategies) = "symbolic"
                      THEN [tests |-> SymbolicTests(function, klee_tests),
                            state |-> state]
                      ELSE GenerateTestsForFunction(function, Head(strategies), state)
             rest == StrategyTests(function, Tail(strategies), klee_tests, first.state)
         IN  [tests |-> first.tests \o rest.tests, state |-> rest.state]

\* Lines 94-118: the functions in turn.
RECURSIVE FunctionTests(_, _, _, _)
FunctionTests(functions, strategies, klee_tests, state) ==
    IF functions = << >> THEN [tests |-> << >>, state |-> state]
    ELSE LET first == StrategyTests(Head(functions), strategies, klee_tests, state)
             rest == FunctionTests(Tail(functions), strategies, klee_tests, first.state)
         IN  [tests |-> first.tests \o rest.tests, state |-> rest.state]

\* TestGenerator.generate_tests(program) without a function name and without
\* strategies: the test cases of the suite and the state of the global generator.
GenerateTestSuite(functions, klee, klee_tests, state) ==
    FunctionTests(FunctionsToTest(functions), DefaultStrategies(klee),
                  klee_tests, state)

GeneratorIdle ==
    /\ generator_source = << >>
    /\ generator_program = << >>
    /\ klee_available = FALSE
    /\ random_state = RandomSeed(DefaultSeed)
    /\ test_suites = << >>

(***************************************************************************)
(* GeminiCToCSharpConverter.convert: _create_conversion_chunks,            *)
(* _process_chunks_with_dependencies, _assemble_csharp_code and            *)
(* _post_process_code.                                                     *)
(***************************************************************************)
\* A chunk_id: "program_structure", "defines", "globals", f"enum_{name}",
\* f"struct_{name}", f"func_{name}" (part 0) or f"func_{name}_part{k}".
ChunkId(kind, name, part) == [kind |-> kind, name |-> name, part |-> part]

ProgramStructureId == ChunkId("program_structure", "", 0)

\* converted_code="" of a failed response: the code of no chunk.
NoChunkId == ChunkId("", "", 0)

\* ConversionChunk: the fields that _process_chunks_with_dependencies reads.
NewConversionChunk(chunk_id, dependencies) ==
    [chunk_id |-> chunk_id, dependencies |-> dependencies]

\* Lines 309-320: the chunks of one function, whose body
\* _split_function_if_needed cut into func.parts pieces.
FunctionChunks(func) ==
    [i \in 1..func.parts |->
        NewConversionChunk(
            ChunkId("func", func.name, IF func.parts > 1 THEN i ELSE 0),
            {ProgramStructureId})]

RECURSIVE AllFunctionChunks(_)
AllFunctionChunks(functions) ==
    IF functions = << >> THEN << >>
    ELSE FunctionChunks(Head(functions)) \o AllFunctionChunks(Tail(functions))

\* _create_conversion_chunks: the structure chunk, then defines, enums,
\* structs, globals and functions, each depending on the structure chunk.
CreateConversionChunks(program) ==
    << NewConversionChunk(ProgramStructureId, {}) >>
    \o (IF program.defines
        THEN << NewConversionChunk(ChunkId("defines", "", 0), {ProgramStructureId}) >>
        ELSE << >>)
    \o [i \in 1..Len(program.enums) |->
            NewConversionChunk(ChunkId("enum", program.enums[i], 0),
                               {ProgramStructureId})]
    \o [i \in 1..Len(program.structs) |->
            NewConversionChunk(ChunkId("struct", program.structs[i], 0),
                               {ProgramStructureId})]
    \o (IF program.variables
        THEN << NewConversionChunk(ChunkId("globals", "", 0), {ProgramStructureId}) >>
        ELSE << >>)
    \o AllFunctionChunks(program.functions)

\* Lines 332-335 with the mutation: every remaining chunk is ready.
ReadyChunksAll(chunks, remaining, converted) ==
    {chunks[i].chunk_id : i \in {j \in 1..Len(chunks) : chunks[j].chunk_id \in remaining}}

\* Lines 332-335: the remaining chunks whose dependencies are all keys of
\* converted_chunks.
ReadyChunks(chunks, remaining, converted) ==
    {chunks[i].chunk_id :
        i \in {j \in 1..Len(chunks) :
                  /\ chunks[j].chunk_id \in remaining
                  /\ chunks[j].dependencies \subseteq DOMAIN converted}}

\* Lines 351-371: what the main thread stores for a finished future, the
\* response of _convert_chunk_with_cache or the error response of the handler.
FutureResponse(chunk_id, outcome) ==
    IF outcome = "success"
    THEN [success |-> TRUE, converted_code |-> chunk_id]
    ELSE [success |-> FALSE, converted_code |-> NoChunkId]

\* A line of the assembled code: a fixed text, or the converted code of a chunk
\* behind four spaces.
TextLine(text) == [text |-> text, code_of |-> NoChunkId]

CodeLine(converted_code) == [text |-> "    <code>", code_of |-> converted_code]

\* The lines of one chunk in the assembly: the code when the chunk is a key of
\* converted_chunks and succeeded, then an empty line.
ChunkLines(converted, chunk_id) ==
    IF chunk_id \in DOMAIN converted /\ converted[chunk_id].success
    THEN << CodeLine(converted[chunk_id].converted_code), TextLine("") >>
    ELSE << >>

RECURSIVE NamedChunkLines(_, _, _)
NamedChunkLines(converted, kind, names) ==
    IF names = << >> THEN << >>
    ELSE ChunkLines(converted, ChunkId(kind, Head(names), 0))
         \o NamedChunkLines(converted, kind, Tail(names))

\* _assemble_csharp_code: usings, class header, the enums, structs and
\* functions of the program looked up by enum_<name>, struct_<name> and
\* func_<name>, and the class footer.  chunk_order is assigned and never read.
AssembleCSharpCode(converted, program) ==
    << TextLine("using System;"), TextLine("using System.Runtime.InteropServices;"),
       TextLine(""), TextLine("public class Program"), TextLine("{"),
       TextLine("") >>
    \o NamedChunkLines(converted, "enum", program.enums)
    \o NamedChunkLines(converted, "struct", program.structs)
    \o NamedChunkLines(converted, "func",
                       [i \in 1..Len(program.functions) |-> program.functions[i].name])
    \o << TextLine("}") >>

\* line.strip().startswith('using ')
IsUsingLine(line) ==
    line.text \in {"using System;", "using System.Runtime.InteropServices;"}

\* _post_process_code: a using line is kept the first time it is seen.
RECURSIVE PostProcessCode(_, _)
PostProcessCode(lines, seen_usings) ==
    IF lines = << >> THEN << >>
    ELSE IF IsUsingLine(Head(lines))
         THEN (IF Head(lines) \in seen_usings THEN << >> ELSE << Head(lines) >>)
              \o PostProcessCode(Tail(lines), seen_usings \cup {Head(lines)})
         ELSE << Head(lines) >> \o PostProcessCode(Tail(lines), seen_usings)

\* The programs given to convert.
EmptyConvertProgram ==
    [defines |-> FALSE, enums |-> << >>, structs |-> << >>, variables |-> FALSE,
     functions |-> << >>]

ConvertPrograms ==
    {p \in [defines : BOOLEAN, enums : {<< >>, << "E" >>},
            structs : {<< >>, << "S" >>}, variables : BOOLEAN,
            functions : {<< >>, << [name |-> "f", parts |-> 1] >>,
                         << [name |-> "f", parts |-> 2] >>,
                         << [name |-> "f", parts |-> 1],
                            [name |-> "g", parts |-> 1] >>}] :
        Len(CreateConversionChunks(p)) <= MaxConvertChunks}

\* Chunk lists with other dependencies than _create_conversion_chunks gives:
\* the chunks of a program of two functions, each depending on any of the others.
TwoFunctionProgram ==
    [EmptyConvertProgram EXCEPT
        !.functions = << [name |-> "f", parts |-> 1], [name |-> "g", parts |-> 1] >>]

OtherChunkLists ==
    LET ps == ProgramStructureId
        f == ChunkId("func", "f", 0)
        g == ChunkId("func", "g", 0)
    IN  {<< NewConversionChunk(ps, dps), NewConversionChunk(f, df),
            NewConversionChunk(g, dg) >> :
            dps \in {{}, {f}}, df \in SUBSET {ps, g}, dg \in SUBSET {ps, f}}

NoConvertedChunks == [c \in {} |-> FutureResponse(ProgramStructureId, "failed")]

NoFutures == [c \in {} |-> "pending"]

ConvertIdle ==
    /\ convert_program = EmptyConvertProgram
    /\ convert_chunks = << >>
    /\ max_parallel = 1
    /\ converted_chunks = NoConvertedChunks
    /\ remaining_chunks = {}
    /\ futures = NoFutures
    /\ convert_pc = "idle"
    /\ convert_log = << >>
    /\ csharp_code = << >>

(***************************************************************************)
(* One attempt of _convert_program_with_retry from the C tests to the      *)
(* decision (migration_orchestrator.py lines 220-267): the two runners,    *)
(* the validator and the acceptance test on their real results.            *)
(***************************************************************************)
\* outputs['completed'] = True of _parse_test_output
TrueValue == [type |-> "bool", class |-> "finite", units |-> UnitsPerOne]

\* The outputs dict of a TestResult of a runner: the parsed keys with their
\* values; return_value is the number the harness printed.
ResultOutputs(test_result, return_value) ==
    [key \in test_result.outputs |->
        IF key = "return_value" THEN return_value ELSE TrueValue]

\* c_results.get(test_id) for a dict returned by run_tests: every test case of
\* the suite has a TestResult, which is truthy.
GetResult(results, test_id, return_value) ==
    IF test_id \in DOMAIN results
    THEN [present |-> TRUE, outputs |-> ResultOutputs(results[test_id], return_value)]
    ELSE MissingResult

\* Lines 220-267: run_tests of the C runner, run_tests of the C# runner,
\* validate, and the decision on the attempt att.
RunAttempt(inp) ==
    LET c_test_results == RunTests("c", inp.c.compile, inp.c.run, inp.c.stdout,
                                   inp.c.exit_code)
        csharp_test_results == RunTests("csharp", inp.csharp.compile, inp.csharp.run,
                                        inp.csharp.stdout, inp.csharp.exit_code)
        suite == [id \in 1..Len(inp.c.stdout) |->
                     [c |-> GetResult(c_test_results, id, IntValue(1)),
                      csharp |-> GetResult(csharp_test_results, id, inp.csharp_value)]]
        validation == Validate(suite)
        decision == AfterValidation(NewConversionResult("a", DefaultMaxRetries),
                                    [i \in 1..Len(validation) |-> validation[i].is_match],
                                    inp.att, DefaultMaxRetries)
    IN  [called |-> TRUE, c_results |-> c_test_results,
         csharp_results |-> csharp_test_results, validation |-> validation,
         status |-> decision.result.status, break_loop |-> decision.break_loop]

NoAttemptInput ==
    LET none == [runner |-> "c", compile |-> "ok", run |-> "ran", stdout |-> << >>,
                 exit_code |-> 0]
    IN  [c |-> none, csharp |-> [none EXCEPT !.runner = "csharp"],
         csharp_value |-> IntValue(1), att |-> 1]

AttemptNotRun ==
    [called |-> FALSE, c_results |-> << >>, csharp_results |-> << >>,
     validation |-> << >>, status |-> "pending", break_loop |-> FALSE]

AttemptIdle ==
    /\ attempt_in = NoAttemptInput
    /\ attempt_out = AttemptNotRun

(***************************************************************************)
(* _remove_main_function of CTestRunner (c_test_runner.py lines 274-312)   *)
(* and of KleeWrapper (klee_wrapper.py lines 583-622): the two loops skip  *)
(* the same lines.                                                         *)
(***************************************************************************)
\* The lines a source is written with.
SourceTexts ==
    {"int main(void) {", "int main(void)", "int main(void) { return 0; }",
     "int f(void) {", "{", "}", "return 1;", "int x;", ""}

\* re.match(r'\s*(int|void)\s+main\s*\(', line)
IsMainHeader(text) ==
    text \in {"int main(void) {", "int main(void)", "int main(void) { return 0; }"}

\* line.count('{') - line.count('}')
BraceDelta(text) ==
    CASE text \in {"int main(void) {", "int f(void) {", "{"} -> 1
      [] text = "}" -> -1
      [] OTHER -> 0

\* The for loop: the numbers of the lines appended to filtered_lines, from
\* line i on, with the in_main and brace_count of the loop.
RECURSIVE FilteredLines(_, _, _, _)
FilteredLines(lines, i, in_main, brace_count) ==
    IF i > Len(lines) THEN << >>
    ELSE IF IsMainHeader(lines[i])
         THEN FilteredLines(lines, i + 1, TRUE, BraceDelta(lines[i]))
         ELSE IF in_main
              THEN FilteredLines(lines, i + 1,
                                 brace_count + BraceDelta(lines[i]) > 0,
                                 brace_count + BraceDelta(lines[i]))
              ELSE << i >> \o FilteredLines(lines, i + 1, FALSE, brace_count)

\* re.sub(r'\n{3,}', '\n\n', '\n'.join(filtered_lines)): of a run of empty
\* lines, the number that the joined text still holds after the substitution.
\* The run has k lines; left and right tell whether a line precedes and follows.
KeptOfRun(k, left, right) ==
    LET bounds_count == (IF left THEN 1 ELSE 0) + (IF right THEN 1 ELSE 0)
        newlines == k - 1 + bounds_count
    IN  (IF newlines >= 3 THEN 2 ELSE newlines) + 1 - bounds_count

\* The filtered lines that the substitution leaves, by their numbers in the
\* source; of a shortened run the first lines are the ones counted as left.
CollapseBlankLines(lines, filtered) ==
    LET n == Len(filtered)
        blank(j) == lines[filtered[j]] = ""
        run_start(j) == CHOOSE s \in 1..j :
                            /\ \A m \in s..j : blank(m)
                            /\ s = 1 \/ ~blank(s - 1)
        run_end(j) == CHOOSE e \in j..n :
                          /\ \A m \in j..e : blank(m)
                          /\ e = n \/ ~blank(e + 1)
        kept(j) == ~blank(j)
                   \/ j - run_start(j) + 1
                        <= KeptOfRun(run_end(j) - run_start(j) + 1,
                                     run_start(j) > 1, run_end(j) < n)
        RECURSIVE keep_from(_)
        keep_from(j) == IF j > n THEN << >>
                        ELSE (IF kept(j) THEN << filtered[j] >> ELSE << >>)
                             \o keep_from(j + 1)
    IN  keep_from(1)

\* _remove_main_function: the numbers of the source lines that the result holds.
RemoveMainFunction(lines) ==
    CollapseBlankLines(lines, FilteredLines(lines, 1, FALSE, 0))

StripNotCalled == [called |-> FALSE, kept |-> << >>]

StripIdle ==
    /\ strip_in = << >>
    /\ strip_out = StripNotCalled

(***************************************************************************)
(* DependenciesAnalysis.tarjan_scc, condense_graph and topo_on_condensed   *)
(* (src/src/core/dependencies_analysis.py lines 147-214).                  *)
(***************************************************************************)
\* tarjan_scc lines 149-154: no node has an index (-1), the stack is empty.
NewTarjanState ==
    [index |-> 0, indices |-> [n \in Files |-> -1], low |-> [n \in Files |-> -1],
     st |-> << >>, onstack |-> {}, sccs |-> << >>]

\* Lines 169-177: the stack is popped down to v; the popped nodes, in the order
\* of popping, are one component.
PopComponent(v, ts) ==
    LET p == CHOOSE i \in 1..Len(ts.st) : ts.st[i] = v /\ \A j \in (i + 1)..Len(ts.st) : ts.st[j] # v
        comp == [k \in 1..(Len(ts.st) - p + 1) |-> ts.st[Len(ts.st) - k + 1]]
    IN  [ts EXCEPT !.st = SubSeq(ts.st, 1, p - 1),
                   !.onstack = @ \ Range(comp),
                   !.sccs = Append(@, comp)]

\* Lines 156-177: strongconnect(v), and its loop over graph.get(v, set()) from
\* position i on.
RECURSIVE StrongConnect(_, _, _), StrongConnectLoop(_, _, _, _)
StrongConnect(g, v, ts) ==
    LET ts1 == [ts EXCEPT !.indices[v] = ts.index, !.low[v] = ts.index,
                          !.index = ts.index + 1,
                          !.st = Append(ts.st, v), !.onstack = ts.onstack \cup {v}]
        ts2 == StrongConnectLoop(g, v, 1, ts1)
    IN  IF ts2.low[v] = ts2.indices[v] THEN PopComponent(v, ts2) ELSE ts2

StrongConnectLoop(g, v, i, ts) ==
    IF i > Len(GraphGet(g, v)) THEN ts
    ELSE LET w == GraphGet(g, v)[i]
         IN  IF ts.indices[w] = -1
             THEN LET ts1 == StrongConnect(g, w, ts)
                  IN  StrongConnectLoop(g, v, i + 1,
                          [ts1 EXCEPT !.low[v] = Min2(ts1.low[v], ts1.low[w])])
             ELSE IF w \in ts.onstack
                  THEN StrongConnectLoop(g, v, i + 1,
                           [ts EXCEPT !.low[v] = Min2(ts.low[v], ts.indices[w])])
                  ELSE StrongConnectLoop(g, v, i + 1, ts)

\* Lines 179-182: strongconnect of every key that has no index yet.
RECURSIVE TarjanRoots(_, _, _)
TarjanRoots(g, i, ts) ==
    IF i > Len(g.keys) THEN ts
    ELSE TarjanRoots(g, i + 1,
                     IF ts.indices[g.keys[i]] = -1 THEN StrongConnect(g, g.keys[i], ts)
                     ELSE ts)

\* tarjan_scc: the list of components.
TarjanScc(g) == TarjanRoots(g, 1, NewTarjanState).sccs

\* condense_graph lines 186-189: comp_id, with the 0-based positions of sccs.
CompId(sccs) ==
    [n \in UNION {Range(sccs[i]) : i \in 1..Len(sccs)} |->
        (CHOOSE i \in 1..Len(sccs) :
            /\ n \in Range(sccs[i])
            /\ \A j \in (i + 1)..Len(sccs) : n \notin Range(sccs[j])) - 1]

\* The edges of the graph that join two components, in the order in which
\* lines 192-195 meet them.
RECURSIVE CrossEdges(_, _, _, _)
CrossEdges(g, comp_id, i, k) ==
    IF i > Len(g.keys) THEN << >>
    ELSE IF k > Len(g.deps[g.keys[i]]) THEN CrossEdges(g, comp_id, i + 1, 1)
         ELSE (IF comp_id[g.keys[i]] # comp_id[g.deps[g.keys[i]][k]]
               THEN << << comp_id[g.keys[i]], comp_id[g.deps[g.keys[i]][k]] >> >>
               ELSE << >>)
              \o CrossEdges(g, comp_id, i, k + 1)

\* The list s without the repetitions of its elements.
RECURSIVE FirstOccurrences(_)
FirstOccurrences(s) ==
    IF s = << >> THEN << >>
    ELSE << Head(s) >>
         \o FirstOccurrences(SelectSeq(Tail(s), LAMBDA x : x # Head(s)))

\* condense_graph lines 191-196: the defaultdict condensed.  A component gets
\* a key only when an edge leaves it for another component; keys holds the keys
\* in insertion order.
CondenseGraph(g, sccs) ==
    LET edges == CrossEdges(g, CompId(sccs), 1, 1)
        keys == FirstOccurrences([i \in 1..Len(edges) |-> edges[i][1]])
    IN  [keys |-> keys,
         dests |-> [u \in Range(keys) |->
                       {edges[i][2] : i \in {j \in 1..Len(edges) : edges[j][1] = u}}]]

\* A set of small ints as a list: iterating it yields its elements in
\* increasing order.
RECURSIVE SortedInts(_)
SortedInts(S) ==
    IF S = {} THEN << >>
    ELSE LET m == CHOOSE x \in S : \A y \in S : x <= y
         IN  << m >> \o SortedInts(S \ {m})

\* condensed[u] of the defaultdict: the empty set for a missing key.
CondensedGet(condensed, u) ==
    IF u \in DOMAIN condensed.dests THEN condensed.dests[u] ELSE {}

\* topo_on_condensed lines 200-204: the keys of indeg in insertion order, for
\* each key of condensed its destinations and then the key itself.
RECURSIVE IndegKeys(_, _)
IndegKeys(condensed, i) ==
    IF i > Len(condensed.keys) THEN << >>
    ELSE SortedInts(condensed.dests[condensed.keys[i]]) \o << condensed.keys[i] >>
         \o IndegKeys(condensed, i + 1)

CondensedInDegree(condensed) ==
    [v \in Range(IndegKeys(condensed, 1)) |->
        Cardinality({u \in Range(condensed.keys) : v \in condensed.dests[u]})]

\* Lines 207-213: the while loop; q.pop() takes the last element.
RECURSIVE CondensedRelax(_, _, _), CondensedLoop(_, _, _, _)
CondensedRelax(dests, indeg, q) ==
    IF dests = << >> THEN [indeg |-> indeg, q |-> q]
    ELSE LET v == Head(dests)
             indeg1 == [indeg EXCEPT ![v] = @ - 1]
         IN  CondensedRelax(Tail(dests), indeg1,
                            IF indeg1[v] = 0 THEN Append(q, v) ELSE q)

CondensedLoop(condensed, indeg, q, order) ==
    IF q = << >> THEN order
    ELSE LET u == q[Len(q)]
             r == CondensedRelax(SortedInts(CondensedGet(condensed, u)), indeg,
                                 SubSeq(q, 1, Len(q) - 1))
         IN  CondensedLoop(condensed, r.indeg, r.q, Append(order, u))

\* topo_on_condensed: the order of the components.
TopoOnCondensed(condensed) ==
    LET indeg == CondensedInDegree(condensed)
        keys == FirstOccurrences(IndegKeys(condensed, 1))
    IN  CondensedLoop(condensed, indeg,
                      SelectSeq(keys, LAMBDA u : indeg[u] = 0), << >>)

SccNotCalled ==
    [called |-> FALSE, sccs |-> << >>,
     condensed |-> [keys |-> << >>, dests |-> << >>], order |-> << >>]

SccIdle ==
    /\ scc_in = EmptyIncludeGraph
    /\ scc_out = SccNotCalled

(***************************************************************************)
(* _convert_chunk_with_cache down to the rate limiter: the cache lookup,   *)
(* the admission of _convert_chunk_with_gemini and the cache write.        *)
(***************************************************************************)
NeedsAdmissionAlways(file) == TRUE

\* Lines 382-393 and 410: _convert_chunk_with_gemini, whose first statement is
\* wait_if_needed, is reached only when the load of the cache file did not
\* return.
NeedsAdmission(file) == ~CacheHit(file)

\* The chunks of the cached conversions: two cache keys.
AdmitChunks ==
    {chunk \in ConversionChunks : chunk.chunk_id = "func_f" /\ chunk.priority = 5}

\* What a pass of the retry loop meets in the cached conversions: the responses
\* whose text suggests no delay, and the exceptions.
AdmitResponses ==
    {resp \in Responses :
        resp.kind = "response" => (resp.retry_info = NoDelay /\ resp.retry_text = NoDelay)}

\* The GeminiResponse of _convert_chunk_with_gemini as the cache stores it.
StoredResponse(response) ==
    ChunkResponse(response.success,
                  IF response.success THEN "class A { int f() }" ELSE "",
                  response.explanation)

\* The components that a specification does not drive stay as constructed.
OthersIdle(driven) ==
    /\ "analysis" \notin driven => AnalysisIdle
    /\ "limiter" \notin driven => LimiterIdle
    /\ "chunk" \notin driven => ChunkIdle
    /\ "cache" \notin driven => CacheIdle
    /\ "hybrid" \notin driven => HybridIdle
    /\ "validator" \notin driven => ValidatorIdle
    /\ "runner" \notin driven => RunnerIdle
    /\ "generator" \notin driven => GeneratorIdle
    /\ "convert" \notin driven => ConvertIdle
    /\ "attempt" \notin driven => AttemptIdle
    /\ "strip" \notin driven => StripIdle
    /\ "scc" \notin driven => SccIdle

(***************************************************************************)
(* Initial state: a constructed orchestrator and an empty graph.           *)
(***************************************************************************)
NoResult == NewConversionResult("", 0)

NoHist ==
    [attempts |-> {}, raised |-> {}, mismatched |-> {}, accepted |-> {},
     aborted |-> FALSE, results_before |-> 0]

\* returned when no read-only call was made since the last mutation.
NotCalled == [call |-> "none", value |-> << >>]

GraphInit ==
    /\ dependency_graph = EmptyGraph
    /\ conversion_order = << >>
    /\ order_status = "none"
    /\ add_calls = 0
    /\ returned = NotCalled

OrchInit ==
    /\ programs = << >>
    /\ migration_report = NewMigrationReport
    /\ pc = "idle"
    /\ idx = 0
    /\ result = NoResult
    /\ attempt = 0
    /\ step = "none"
    /\ test_suite = 0
    /\ validation_results = << >>
    /\ runs = 0
    /\ hist = NoHist

\* MigrationOrchestrator.__init__ with a config whose max_retries is a count.
Init ==
    /\ GraphInit
    /\ OrchInit
    /\ max_retries \in 0..MaxRetriesCfg
    /\ OthersIdle({})

(***************************************************************************)
(* migrate_all                                                             *)
(***************************************************************************)
\* The projects: the parsed files and, for each, the user includes that name
\* another parsed file (an include of an unparsed file or of the file itself
\* is dropped at line 461 and adds nothing).
Projects ==
    UNION {{[files |-> S, includes |-> inc] :
                inc \in {f \in [S -> SUBSET S] : \A x \in S : x \notin f[x]}} :
           S \in SUBSET Files}

\* Steps 1-3 (lines 91-124): parse, analyse, order; a ValueError of
\* get_conversion_order returns the report at once (through the finally clause).
MigrateAll(project) ==
    /\ pc = "idle"
    /\ runs < MaxRuns
    /\ LET progs == ParsePrograms(SortedFiles(project.files), project.includes)
           co == GetConversionOrder(AnalyzeDependencies(progs))
       IN  /\ programs' = progs
           /\ migration_report' = [migration_report EXCEPT !.total_programs = Len(progs)]
           /\ dependency_graph' = co.graph
           /\ conversion_order' = co.order
           /\ order_status' = IF co.raised THEN "ValueError" ELSE "ok"
           /\ pc' = IF co.raised THEN "idle" ELSE "step4"
           /\ idx' = 1
           /\ hist' = [NoHist EXCEPT !.aborted = co.raised,
                                     !.results_before = Len(migration_report.conversion_results)]
    /\ runs' = runs + 1
    /\ result' = NoResult
    /\ attempt' = 0
    /\ step' = "none"
    /\ test_suite' = 0
    /\ validation_results' = << >>
    /\ UNCHANGED << add_calls, returned, max_retries >>
    /\ UNCHANGED otherVars

\* Lines 133-147: the next program of the order; the ConversionResult of
\* _convert_program_with_retry is created (line 199).  A program id that
\* _get_program_by_id does not find is skipped (line 140).
NextProgram ==
    /\ pc = "step4"
    /\ idx <= Len(conversion_order)
    /\ IF GetProgramById(programs, conversion_order[idx]) = 0
       THEN /\ idx' = idx + 1
            /\ UNCHANGED << pc, result >>
       ELSE /\ result' = NewConversionResult(conversion_order[idx], max_retries)
            /\ pc' = "created"
            /\ UNCHANGED idx
    /\ hist' = [hist EXCEPT !.attempts = {}, !.raised = {}, !.mismatched = {},
                            !.accepted = {}]
    /\ UNCHANGED << graphVars, max_retries, programs, migration_report, attempt,
                    step, test_suite, validation_results, runs >>
    /\ UNCHANGED otherVars

\* Line 205: result.status = IN_PROGRESS, before the for loop.
StartProgress ==
    /\ pc = "created"
    /\ result' = [result EXCEPT !.status = "in_progress"]
    /\ attempt' = 0
    /\ pc' = "for"
    /\ UNCHANGED << graphVars, max_retries, programs, migration_report, idx, step,
                    test_suite, validation_results, runs, hist >>
    /\ UNCHANGED otherVars

\* Line 209: for attempt in range(1, max_retries + 1), one more attempt.
NextAttempt ==
    /\ pc = "for"
    /\ MoreAttempts(attempt, max_retries)
    /\ attempt' = attempt + 1
    /\ step' = "generate_tests"
    /\ pc' = "try"
    /\ hist' = [hist EXCEPT !.attempts = @ \cup {attempt + 1}]
    /\ test_suite' = 0
    /\ validation_results' = << >>
    /\ UNCHANGED << graphVars, max_retries, programs, migration_report, idx, result,
                    runs >>
    /\ UNCHANGED otherVars

\* Line 209: the range is exhausted; lines 276-277 return the result.
LoopExhausted ==
    /\ pc = "for"
    /\ ~MoreAttempts(attempt, max_retries)
    /\ pc' = "return"
    /\ UNCHANGED << graphVars, max_retries, programs, migration_report, idx, result,
                    attempt, step, test_suite, validation_results, runs, hist >>
    /\ UNCHANGED otherVars

\* Lines 216-217: the suite of n test cases.
GenerateTests(n) ==
    /\ pc = "try"
    /\ step = "generate_tests"
    /\ test_suite' = n
    /\ step' = "run_c_tests"
    /\ UNCHANGED << graphVars, max_retries, programs, migration_report, pc, idx,
                    result, attempt, validation_results, runs, hist >>
    /\ UNCHANGED otherVars

\* Lines 220-234: the C baseline (_run_c_tests), the translation
\* (_convert_to_csharp) and the C# run (_run_csharp_tests), in this order.
BaselineTranslateRun ==
    /\ pc = "try"
    /\ step = "run_c_tests"
    /\ step' = "validate_outputs"
    /\ UNCHANGED << graphVars, max_retries, programs, migration_report, pc, idx,
                    result, attempt, test_suite, validation_results, runs, hist >>
    /\ UNCHANGED otherVars

\* Lines 238-267: OutputValidator.validate returns one ValidationResult per test
\* case of the suite (output_validator.py 64-150); vr lists their is_match.
ValidateOutputs(vr) ==
    /\ pc = "try"
    /\ step = "validate_outputs"
    /\ Len(vr) = test_suite
    /\ LET d == AfterValidation(result, vr, attempt, max_retries)
       IN  /\ result' = d.result
           /\ pc' = IF d.break_loop THEN "return" ELSE "for"
           /\ hist' = [hist EXCEPT
                        !.accepted = IF d.result.status = "success"
                                     THEN @ \cup {attempt} ELSE @,
                        !.mismatched = IF \E i \in 1..Len(vr) : ~vr[i]
                                       THEN @ \cup {attempt} ELSE @]
    /\ validation_results' = vr
    /\ step' = "none"
    /\ UNCHANGED << graphVars, max_retries, programs, migration_report, idx,
                    attempt, test_suite, runs >>
    /\ UNCHANGED otherVars

\* Any of the five steps raises an Exception: the except clause of lines 269-274.
StepRaises ==
    /\ pc = "try"
    /\ result' = ExceptHandler(result, attempt, max_retries)
    /\ hist' = [hist EXCEPT !.raised = @ \cup {attempt}]
    /\ step' = "none"
    /\ pc' = "for"
    /\ test_suite' = 0
    /\ validation_results' = << >>
    /\ UNCHANGED << graphVars, max_retries, programs, migration_report, idx,
                    attempt, runs >>
    /\ UNCHANGED otherVars

\* Lines 149-161: the returned result is added to the report; SUCCESS marks the
\* graph node and the program.
RecordResult ==
    /\ pc = "return"
    /\ migration_report' = AddResult(migration_report, result)
    /\ dependency_graph' = UpdateGraph(dependency_graph, result)
    /\ programs' = IF result.status = "success"
                   THEN [programs EXCEPT
                           ![GetProgramById(programs, result.program_id)].is_converted = TRUE]
                   ELSE programs
    /\ idx' = idx + 1
    /\ pc' = "step4"
    /\ result' = NoResult
    /\ attempt' = 0
    /\ test_suite' = 0
    /\ validation_results' = << >>
    /\ UNCHANGED << conversion_order, order_status, add_calls, returned, max_retries, step,
                    runs, hist >>
    /\ UNCHANGED otherVars

\* Lines 163-180: step 5 and the finally clause; the report is returned.
FinishMigration ==
    /\ pc = "step4"
    /\ idx > Len(conversion_order)
    /\ pc' = "idle"
    /\ UNCHANGED << graphVars, max_retries, programs, migration_report, idx, result,
                    attempt, step, test_suite, validation_results, runs, hist >>
    /\ UNCHANGED otherVars

Next ==
    \/ \E project \in Projects : MigrateAll(project)
    \/ NextProgram
    \/ StartProgress
    \/ NextAttempt
    \/ LoopExhausted
    \/ \E n \in 0..MaxTests : GenerateTests(n)
    \/ BaselineTranslateRun
    \/ \E vr \in UNION {[1..n -> BOOLEAN] : n \in 0..MaxTests} : ValidateOutputs(vr)
    \/ StepRaises
    \/ RecordResult
    \/ FinishMigration

Spec == Init /\ [][Next]_vars

(***************************************************************************)
(* GraphSpec: a DependencyGraph under arbitrary calls.                     *)
(***************************************************************************)
\* The dependency lists a caller may pass: up to two names, repeats allowed.
DepLists == {<< >>} \cup {<< x >> : x \in Ids} \cup {<< x, y >> : x \in Ids, y \in Ids}

GraphSpecInit ==
    /\ GraphInit
    /\ OrchInit
    /\ max_retries = DefaultMaxRetries
    /\ OthersIdle({})

\* graph.add_node(program_id, dependencies); an order computed earlier is stale.
CallAddNode(program_id, dependencies) ==
    /\ add_calls < MaxAddNodes
    /\ add_calls' = add_calls + 1
    /\ dependency_graph' = AddNode(dependency_graph, program_id, dependencies)
    /\ conversion_order' = << >>
    /\ order_status' = "none"
    /\ returned' = NotCalled
    /\ UNCHANGED orchVars
    /\ UNCHANGED otherVars

\* graph.mark_as_converted(program_id)
CallMarkAsConverted(program_id) ==
    /\ dependency_graph' = MarkAsConverted(dependency_graph, program_id)
    /\ returned' = NotCalled
    /\ UNCHANGED << conversion_order, order_status, add_calls >>
    /\ UNCHANGED orchVars
    /\ UNCHANGED otherVars

\* graph.get_conversion_order()
CallGetConversionOrder ==
    /\ LET co == GetConversionOrder(dependency_graph)
       IN  /\ dependency_graph' = co.graph
           /\ conversion_order' = co.order
           /\ order_status' = IF co.raised THEN "ValueError" ELSE "ok"
    /\ UNCHANGED << add_calls, returned >>
    /\ UNCHANGED orchVars
    /\ UNCHANGED otherVars

\* graph.get_ready_to_convert()
CallGetReadyToConvert ==
    /\ returned' = [call |-> "get_ready_to_convert",
                    value |-> GetReadyToConvert(dependency_graph)]
    /\ UNCHANGED << dependency_graph, conversion_order, order_status, add_calls >>
    /\ UNCHANGED orchVars
    /\ UNCHANGED otherVars

\* graph.detect_circular_dependencies()
CallDetectCircularDependencies ==
    /\ returned' = [call |-> "detect_circular_dependencies",
                    value |-> DetectCircularDependencies(dependency_graph)]
    /\ UNCHANGED << dependency_graph, conversion_order, order_status, add_calls >>
    /\ UNCHANGED orchVars
    /\ UNCHANGED otherVars

\* graph.get_statistics()
CallGetStatistics ==
    /\ returned' = [call |-> "get_statistics",
                    value |-> GetStatistics(dependency_graph)]
    /\ UNCHANGED << dependency_graph, conversion_order, order_status, add_calls >>
    /\ UNCHANGED orchVars
    /\ UNCHANGED otherVars

GraphNext ==
    \/ \E program_id \in Ids, dependencies \in DepLists :
          CallAddNode(program_id, dependencies)
    \/ \E program_id \in Ids : CallMarkAsConverted(program_id)
    \/ CallGetConversionOrder
    \/ CallGetReadyToConvert
    \/ CallDetectCircularDependencies
    \/ CallGetStatistics

GraphSpec == GraphSpecInit /\ [][GraphNext]_vars

(***************************************************************************)
(* AnalysisSpec: find_cycles_dfs, then topological_sort, on one graph.     *)
(***************************************************************************)
AnalysisSpecInit ==
    /\ GraphInit
    /\ OrchInit
    /\ max_retries = DefaultMaxRetries
    /\ include_graph \in IncludeGraphs
    /\ analysis_pc = "idle"
    /\ topo = NoTopo
    /\ analysis_out = NoAnalysisOut
    /\ OthersIdle({"analysis"})

\* DependenciesAnalysis.find_cycles_dfs(graph)
CallFindCyclesDfs ==
    /\ analysis_pc = "idle"
    /\ analysis_pc' = "cycles_returned"
    /\ analysis_out' = [analysis_out EXCEPT !.cycles = FindCyclesDfs(include_graph)]
    /\ UNCHANGED << include_graph, topo >>
    /\ UNCHANGED notAnalysisVars

\* Lines 88-100: topological_sort(graph) is entered; the queue holds the nodes
\* of in-degree 0 in the order in which the new set nodes is iterated.
CallTopologicalSort(queue) ==
    /\ analysis_pc = "cycles_returned"
    /\ LET indeg == TopoInDegree(include_graph)
       IN  /\ queue \in Perms({u \in TopoNodes(include_graph) : indeg[u] = 0})
           /\ topo' = [indeg |-> indeg, q |-> queue, order |-> << >>, todo |-> << >>]
    /\ analysis_pc' = "topological_sort"
    /\ UNCHANGED << include_graph, analysis_out >>
    /\ UNCHANGED notAnalysisVars

\* Lines 102-105: u = q.popleft(); order.append(u); the loop over graph.get(u).
TopoPop ==
    /\ analysis_pc = "topological_sort"
    /\ topo.todo = << >>
    /\ topo.q # << >>
    /\ topo' = [topo EXCEPT !.q = Tail(@),
                            !.order = Append(@, Head(topo.q)),
                            !.todo = GraphGet(include_graph, Head(topo.q))]
    /\ UNCHANGED << include_graph, analysis_pc, analysis_out >>
    /\ UNCHANGED notAnalysisVars

\* Lines 105-108: one iteration of "for v in graph.get(u, set())".
TopoRelax ==
    /\ analysis_pc = "topological_sort"
    /\ topo.todo # << >>
    /\ LET v == Head(topo.todo)
       IN  topo' = [topo EXCEPT !.todo = Tail(@),
                                !.indeg[v] = @ - 1,
                                !.q = IF topo.indeg[v] - 1 = 0 THEN Append(@, v) ELSE @]
    /\ UNCHANGED << include_graph, analysis_pc, analysis_out >>
    /\ UNCHANGED notAnalysisVars

\* Lines 110-112: an incomplete order returns None and find_cycles_dfs(graph);
\* a complete one returns the order and no cycle.
TopoReturn ==
    /\ analysis_pc = "topological_sort"
    /\ topo.todo = << >>
    /\ topo.q = << >>
    /\ analysis_out' =
          IF TopoIncomplete(include_graph, topo.order)
          THEN [analysis_out EXCEPT !.order_none = TRUE,
                                    !.topo_cycles = FindCyclesDfs(include_graph)]
          ELSE [analysis_out EXCEPT !.order = topo.order]
    /\ analysis_pc' = "done"
    /\ topo' = NoTopo
    /\ UNCHANGED include_graph
    /\ UNCHANGED notAnalysisVars

AnalysisNext ==
    \/ CallFindCyclesDfs
    \/ \E queue \in UNION {Perms(S) : S \in SUBSET Files} : CallTopologicalSort(queue)
    \/ TopoPop
    \/ TopoRelax
    \/ TopoReturn

AnalysisSpec == AnalysisSpecInit /\ [][AnalysisNext]_vars

(***************************************************************************)
(* LimiterSpec: the pool threads call wait_if_needed on one RateLimiter    *)
(* while the clock advances.                                               *)
(***************************************************************************)
LimiterSpecInit ==
    /\ GraphInit
    /\ OrchInit
    /\ max_retries = DefaultMaxRetries
    /\ clock = 0
    /\ max_requests_per_minute \in 1..MaxRpm
    /\ requests_timestamps = << >>
    /\ worker = [w \in Workers |-> IdleWorker]
    /\ admissions = << >>
    /\ OthersIdle({"limiter"})

\* Time passes: by TickSeconds, or up to the instant a sleeping thread set for its
\* wake-up.  Admissions that left the trailing window are forgotten.
AdvanceClock(t) ==
    /\ t > clock
    /\ t <= MaxClock
    /\ \/ t = clock + TickSeconds
       \/ \E w \in Workers : worker[w].pc = "sleep" /\ worker[w].wake_at = t
    /\ clock' = t
    /\ admissions' = SelectSeq(admissions, LAMBDA a : t - a < WindowSeconds)
    /\ UNCHANGED << max_requests_per_minute, requests_timestamps, worker >>
    /\ UNCHANGED notLimiterVars

\* Line 31: current_time = time.time()
EnterWaitIfNeeded(w) ==
    /\ worker[w].pc = "idle"
    /\ worker[w].calls < MaxWaits
    /\ worker' = [worker EXCEPT ![w].pc = "filter", ![w].current_time = clock]
    /\ UNCHANGED << clock, max_requests_per_minute, requests_timestamps, admissions >>
    /\ UNCHANGED notLimiterVars

\* Lines 34-37, the list comprehension: the recent timestamps of the list as it is.
FilterTimestamps(w) ==
    /\ worker[w].pc = "filter"
    /\ worker' = [worker EXCEPT
                    ![w].pc = "store",
                    ![w].filtered = RecentTimestamps(requests_timestamps,
                                                     worker[w].current_time)]
    /\ UNCHANGED << clock, max_requests_per_minute, requests_timestamps, admissions >>
    /\ UNCHANGED notLimiterVars

\* Line 34, the assignment: the new list replaces the shared one.
StoreTimestamps(w) ==
    /\ worker[w].pc = "store"
    /\ requests_timestamps' = worker[w].filtered
    /\ worker' = [worker EXCEPT ![w].pc = "check", ![w].filtered = << >>]
    /\ UNCHANGED << clock, max_requests_per_minute, admissions >>
    /\ UNCHANGED notLimiterVars

\* Line 40: if len(self.requests_timestamps) >= self.max_requests_per_minute
CheckLimit(w) ==
    /\ worker[w].pc = "check"
    /\ worker' = [worker EXCEPT
                    ![w].pc = IF AtLimit(requests_timestamps, max_requests_per_minute)
                              THEN "wait" ELSE "append"]
    /\ UNCHANGED << clock, max_requests_per_minute, requests_timestamps, admissions >>
    /\ UNCHANGED notLimiterVars

\* Lines 41-44: oldest_request, wait_time, time.sleep(wait_time).  min() of a
\* list that another thread emptied, and a negative sleep, raise ValueError.
StartSleep(w) ==
    /\ worker[w].pc = "wait"
    /\ worker' =
          IF requests_timestamps = << >>
             \/ WaitTime(requests_timestamps, worker[w].current_time) < 0
          THEN [worker EXCEPT ![w].pc = "raised"]
          ELSE [worker EXCEPT
                  ![w].pc = "sleep",
                  ![w].wake_at = clock + WaitTime(requests_timestamps,
                                                  worker[w].current_time)]
    /\ UNCHANGED << clock, max_requests_per_minute, requests_timestamps, admissions >>
    /\ UNCHANGED notLimiterVars

\* time.sleep returns once wait_time has passed.
WakeUp(w) ==
    /\ worker[w].pc = "sleep"
    /\ clock >= worker[w].wake_at
    /\ worker' = [worker EXCEPT ![w].pc = "append", ![w].wake_at = 0]
    /\ UNCHANGED << clock, max_requests_per_minute, requests_timestamps, admissions >>
    /\ UNCHANGED notLimiterVars

\* Line 47: self.requests_timestamps.append(current_time); wait_if_needed returns
\* and the thread goes on to submit its request.
RecordRequest(w) ==
    /\ worker[w].pc = "append"
    /\ requests_timestamps' = Append(requests_timestamps, worker[w].current_time)
    /\ admissions' = Append(admissions, clock)
    /\ worker' = [worker EXCEPT ![w].pc = "idle", ![w].current_time = 0,
                                ![w].calls = @ + 1]
    /\ UNCHANGED << clock, max_requests_per_minute >>
    /\ UNCHANGED notLimiterVars

LimiterNext ==
    \/ \E t \in 1..MaxClock : AdvanceClock(t)
    \/ \E w \in Workers : EnterWaitIfNeeded(w)
    \/ \E w \in Workers : FilterTimestamps(w)
    \/ \E w \in Workers : StoreTimestamps(w)
    \/ \E w \in Workers : CheckLimit(w)
    \/ \E w \in Workers : StartSleep(w)
    \/ \E w \in Workers : WakeUp(w)
    \/ \E w \in Workers : RecordRequest(w)

LimiterSpec == LimiterSpecInit /\ [][LimiterNext]_vars

(***************************************************************************)
(* ChunkSpec: one thread converts chunks one after the other with          *)
(* _convert_chunk_with_gemini; the clock advances by what the thread       *)
(* sleeps.  ChunkFairSpec: the thread keeps running until it returns.      *)
(***************************************************************************)
ChunkSpecInit ==
    /\ GraphInit
    /\ OrchInit
    /\ max_retries = DefaultMaxRetries
    /\ clock = 0
    /\ max_requests_per_minute = DefaultMaxRequestsPerMinute
    /\ requests_timestamps = << >>
    /\ worker = [w \in Workers |-> IdleWorker]
    /\ admissions = << >>
    /\ limiter_max_retries \in 0..MaxChunkRetries
    /\ chunk_call = IdleChunkCall
    /\ chunks_done = 0
    /\ OthersIdle({"limiter", "chunk"})

\* Lines 405-410: the call is entered and wait_if_needed runs to its end: the
\* filter, the sleep when the limit is reached, the append of the time read
\* before the sleep.
ConvertChunkEnter ==
    /\ chunk_call.pc = "idle"
    /\ chunks_done < MaxChunks
    /\ LET recent == RecentTimestamps(requests_timestamps, clock)
       IN  /\ requests_timestamps' = Append(recent, clock)
           /\ clock' = IF AtLimit(recent, max_requests_per_minute)
                       THEN clock + WaitTime(recent, clock)
                       ELSE clock
    /\ chunk_call' = [IdleChunkCall EXCEPT !.pc = "loop"]
    /\ UNCHANGED << max_requests_per_minute, limiter_max_retries, chunks_done >>
    /\ UNCHANGED notChunkVars

\* Lines 412-506: one pass of the for loop, which meets resp.
ChunkAttempt(resp) ==
    /\ chunk_call.pc = "loop"
    /\ InRetryRange(chunk_call.attempt, limiter_max_retries)
    /\ LET it == ChunkIteration(resp, chunk_call.attempt, limiter_max_retries)
       IN  /\ chunk_call' =
                 [pc |-> IF it.continue_loop THEN "loop" ELSE "returned",
                  attempt |-> chunk_call.attempt + 1,
                  requests |-> IF resp.kind = "prompt_error"
                               THEN chunk_call.requests
                               ELSE chunk_call.requests + 1,
                  last |-> resp,
                  slept |-> it.sleep,
                  response |-> it.response]
           /\ clock' = clock + it.sleep
    /\ UNCHANGED << max_requests_per_minute, requests_timestamps,
                    limiter_max_retries, chunks_done >>
    /\ UNCHANGED notChunkVars

\* Lines 508-516: the range is exhausted: "All retry attempts failed".
ChunkAttemptsExhausted ==
    /\ chunk_call.pc = "loop"
    /\ ~InRetryRange(chunk_call.attempt, limiter_max_retries)
    /\ chunk_call' = [chunk_call EXCEPT
                        !.pc = "returned",
                        !.response = GeminiResponse(FALSE, "All retry attempts failed")]
    /\ UNCHANGED << clock, max_requests_per_minute, requests_timestamps,
                    limiter_max_retries, chunks_done >>
    /\ UNCHANGED notChunkVars

\* The caller (_convert_chunk_with_cache, line 393) has the response.
ConvertChunkReturn ==
    /\ chunk_call.pc = "returned"
    /\ chunk_call' = IdleChunkCall
    /\ chunks_done' = chunks_done + 1
    /\ UNCHANGED << clock, max_requests_per_minute, requests_timestamps,
                    limiter_max_retries >>
    /\ UNCHANGED notChunkVars

ChunkNext ==
    \/ ConvertChunkEnter
    \/ \E resp \in Responses : ChunkAttempt(resp)
    \/ ChunkAttemptsExhausted
    \/ ConvertChunkReturn

ChunkSpec == ChunkSpecInit /\ [][ChunkNext]_vars

\* requests.post has a timeout and every sleep ends: a running call takes its
\* next step.
ChunkFairSpec == ChunkSpec /\ WF_vars(ChunkNext)

(***************************************************************************)
(* CacheSpec: _convert_chunk_with_cache calls on one cache directory, one  *)
(* after the other.                                                        *)
(***************************************************************************)
CacheSpecInit ==
    /\ GraphInit
    /\ OrchInit
    /\ max_retries = DefaultMaxRetries
    /\ CacheIdle
    /\ OthersIdle({"cache"})

\* Lines 375-403: one call, for chunk; outcome is what _convert_chunk_with_gemini
\* does when it is reached, write how the cache write ends when it is reached.
ConvertChunkWithCache(chunk, outcome, write) ==
    /\ cache_calls < MaxCacheCalls
    /\ LET cache_key == GenerateCacheKey(chunk)
           cache_file == cache_files[cache_key]
           response == IF CacheHit(cache_file)
                       THEN LoadedResponse(cache_file)
                       ELSE outcome.response
       IN  /\ cache_call' =
                 [chunk_triple |-> ChunkTriple(chunk),
                  persisted_before |-> persisted[ChunkTriple(chunk)],
                  response |-> response,
                  requests |-> IF CacheHit(cache_file) THEN 0 ELSE outcome.requests,
                  hit |-> CacheHit(cache_file)]
           /\ IF ~CacheHit(cache_file) /\ response.success
              THEN CASE write = "written" ->
                          /\ cache_files' = [cache_files EXCEPT ![cache_key] = DumpedFile(response)]
                          /\ persisted' = [persisted EXCEPT ![ChunkTriple(chunk)] = response]
                     [] write = "open_raised" ->
                          UNCHANGED << cache_files, persisted >>
                     [] write = "dump_raised" ->
                          /\ cache_files' = [cache_files EXCEPT ![cache_key] = UnreadableFile]
                          /\ UNCHANGED persisted
              ELSE UNCHANGED << cache_files, persisted >>
    /\ cache_calls' = cache_calls + 1
    /\ UNCHANGED notCacheVars

CacheNext ==
    \E chunk \in ConversionChunks, outcome \in GeminiOutcomes, write \in WriteOutcomes :
        ConvertChunkWithCache(chunk, outcome, write)

CacheSpec == CacheSpecInit /\ [][CacheNext]_vars

(***************************************************************************)
(* HybridSpec: a HybridCToCSharpConverter is constructed and convert is    *)
(* called on it.                                                           *)
(***************************************************************************)
\* __init__ (lines 22-81): use_gemini stays set only when the Gemini converter
\* was constructed and has an API key.
HybridSpecInit ==
    /\ GraphInit
    /\ OrchInit
    /\ max_retries = DefaultMaxRetries
    /\ \E use_gemini \in BOOLEAN, api_key_available \in BOOLEAN,
          fallback_to_rules \in BOOLEAN :
          hybrid = [use_gemini |-> use_gemini /\ api_key_available,
                    fallback_to_rules |-> fallback_to_rules]
    /\ hybrid_call = NoHybridCall
    /\ chunk_results = NoChunkResults
    /\ OthersIdle({"hybrid"})

\* convert (lines 83-130), for program; gemini and rules are what the two
\* converters do when they are called.
HybridConvert(program, gemini, rules) ==
    /\ hybrid_call' = HybridConvertResult(program, gemini, rules)
    /\ chunk_results' = NoChunkResults
    /\ UNCHANGED hybrid
    /\ UNCHANGED notHybridVars

\* convert, where the Gemini converter runs to its end (lines 218-238 of
\* gemini_c_to_csharp_converter.py): the chunks of failed get a response with
\* success = False (lines 348-371), the others a successful one, and the
\* assembly is what gemini_converter.convert returns.
HybridConvertChunks(program, failed, rules) ==
    /\ hybrid.use_gemini
    /\ hybrid_call' =
          HybridConvertResult(program,
              [kind |-> "code", code |-> AssembledText(1..program, failed)], rules)
    /\ chunk_results' = [functions |-> 1..program, failed |-> failed,
                         assembled |-> AssembledFunctions(1..program, failed)]
    /\ UNCHANGED hybrid
    /\ UNCHANGED notHybridVars

HybridNext ==
    \/ \E program \in HybridPrograms, gemini \in GeminiConvertOutcomes,
          rules \in RuleConvertOutcomes :
           HybridConvert(program, gemini, rules)
    \/ \E program \in HybridPrograms, rules \in RuleConvertOutcomes :
          \E failed \in SUBSET (1..program) :
             HybridConvertChunks(program, failed, rules)

HybridSpec == HybridSpecInit /\ [][HybridNext]_vars

(***************************************************************************)
(* ValidatorSpec: validate is called on the results of a suite.            *)
(***************************************************************************)
ValidatorSuites ==
    UNION {[1..n -> [c : TestResults, csharp : TestResults]] : n \in 0..MaxSuiteTests}

ValidatorSpecInit ==
    /\ GraphInit
    /\ OrchInit
    /\ max_retries = DefaultMaxRetries
    /\ validator_in \in ValidatorSuites
    /\ validator_out = NotValidated
    /\ OthersIdle({"validator"})

CallValidate ==
    /\ validator_out = NotValidated
    /\ validator_out' = [called |-> TRUE, results |-> Validate(validator_in)]
    /\ UNCHANGED validator_in
    /\ UNCHANGED notValidatorVars

ValidatorNext == CallValidate

ValidatorSpec == ValidatorSpecInit /\ [][ValidatorNext]_vars

(***************************************************************************)
(* RunnerSpec: run_tests of one of the two runners is called on a suite.   *)
(***************************************************************************)
\* What the binary is not reached to produce is left at its default.
RunnerInputs ==
    {inp \in [runner : {"c", "csharp"}, compile : CompileOutcomes, run : RunOutcomes,
             stdout : UNION {[1..n -> ProtocolLines] : n \in 0..MaxRunnerTests},
             exit_code : {0, 1}] :
        /\ inp.compile # "ok" => inp.run = "ran"
        /\ (inp.compile # "ok" \/ inp.run # "ran") =>
              /\ inp.exit_code = 0
              /\ \A i \in 1..Len(inp.stdout) : inp.stdout[i] = {}}

RunnerSpecInit ==
    /\ GraphInit
    /\ OrchInit
    /\ max_retries = DefaultMaxRetries
    /\ runner_in \in RunnerInputs
    /\ runner_out = NotRun
    /\ OthersIdle({"runner"})

CallRunTests ==
    /\ ~runner_out.called
    /\ runner_out' =
          [called |-> TRUE,
           results |-> RunTests(runner_in.runner, runner_in.compile, runner_in.run,
                                runner_in.stdout, runner_in.exit_code)]
    /\ UNCHANGED runner_in
    /\ UNCHANGED notRunnerVars

RunnerNext == CallRunTests

RunnerSpec == RunnerSpecInit /\ [][RunnerNext]_vars

(***************************************************************************)
(* GeneratorSpec: a source file is parsed, a TestGenerator is constructed, *)
(* and the retry loop of _convert_program_with_retry asks it for the tests *)
(* of the program once in each attempt.                                    *)
(***************************************************************************)
GeneratorSpecInit ==
    /\ GraphInit
    /\ OrchInit
    /\ max_retries = DefaultMaxRetries
    /\ generator_source \in SourceFiles
    /\ generator_program = ParseFunctions(generator_source)
    /\ klee_available \in BOOLEAN
    /\ random_state = RandomSeed(DefaultSeed)
    /\ test_suites = << >>
    /\ OthersIdle({"generator"})

\* self._generate_tests(program) of one attempt; klee_tests is the number of
\* test cases KLEE finds for a function.
TestGeneratorGenerateTests(klee_tests) ==
    /\ Len(test_suites) < MaxGenerateCalls
    /\ LET suite == GenerateTestSuite(generator_program, klee_available,
                                      klee_tests, random_state)
       IN  /\ test_suites' = Append(test_suites, suite.tests)
           /\ random_state' = suite.state
    /\ UNCHANGED << generator_source, generator_program, klee_available >>
    /\ UNCHANGED notGeneratorVars

GeneratorNext == \E klee_tests \in 0..MaxKleeTests : TestGeneratorGenerateTests(klee_tests)

GeneratorSpec == GeneratorSpecInit /\ [][GeneratorNext]_vars

(***************************************************************************)
(* ConvertSpec: one call of convert.  The main thread runs the while loop  *)
(* of _process_chunks_with_dependencies; the workers of the executor of a  *)
(* level take the submitted chunks, at most max_parallel at a time.        *)
(***************************************************************************)
ConvertSpecInit ==
    /\ GraphInit
    /\ OrchInit
    /\ max_retries = DefaultMaxRetries
    /\ convert_program \in ConvertPrograms
    /\ convert_chunks \in
           {CreateConversionChunks(convert_program)}
           \cup (IF convert_program = TwoFunctionProgram THEN OtherChunkLists ELSE {})
    /\ max_parallel \in 1..MaxParallel
    /\ converted_chunks = NoConvertedChunks
    /\ remaining_chunks = {convert_chunks[i].chunk_id : i \in 1..Len(convert_chunks)}
    /\ futures = NoFutures
    /\ convert_pc = "loop"
    /\ convert_log = << >>
    /\ csharp_code = << >>
    /\ OthersIdle({"convert"})

\* The order in which executor.submit is called for the ready chunks: the
\* order of remaining_chunks, which is the order of the chunk list.
RECURSIVE SubmitEvents(_, _)
SubmitEvents(chunks, ready) ==
    IF chunks = << >> THEN << >>
    ELSE (IF Head(chunks).chunk_id \in ready
          THEN << [event |-> "submit", chunk_id |-> Head(chunks).chunk_id] >>
          ELSE << >>)
         \o SubmitEvents(Tail(chunks), ready)

\* Lines 330-346: chunks remain and some are ready: all of them are submitted.
SubmitReadyChunks ==
    /\ convert_pc = "loop"
    /\ remaining_chunks # {}
    /\ LET ready == ReadyChunks(convert_chunks, remaining_chunks, converted_chunks)
       IN  /\ ready # {}
           /\ futures' = [c \in ready |-> "pending"]
           /\ convert_log' = convert_log \o SubmitEvents(convert_chunks, ready)
    /\ convert_pc' = "level"
    /\ UNCHANGED << convert_program, convert_chunks, max_parallel, converted_chunks,
                    remaining_chunks, csharp_code >>
    /\ UNCHANGED notConvertVars

\* Lines 337-339: chunks remain and none is ready: the error is logged and the
\* loop is left.
CircularChunks ==
    /\ convert_pc = "loop"
    /\ remaining_chunks # {}
    /\ ReadyChunks(convert_chunks, remaining_chunks, converted_chunks) = {}
    /\ convert_pc' = "circular"
    /\ UNCHANGED << convert_program, convert_chunks, max_parallel, converted_chunks,
                    remaining_chunks, futures, convert_log, csharp_code >>
    /\ UNCHANGED notConvertVars

\* Line 330: no chunk remains.
AllChunksProcessed ==
    /\ convert_pc = "loop"
    /\ remaining_chunks = {}
    /\ convert_pc' = "processed"
    /\ UNCHANGED << convert_program, convert_chunks, max_parallel, converted_chunks,
                    remaining_chunks, futures, convert_log, csharp_code >>
    /\ UNCHANGED notConvertVars

\* A worker of the executor takes a submitted chunk.
WorkerTakesChunk(c) ==
    /\ convert_pc = "level"
    /\ c \in DOMAIN futures
    /\ futures[c] = "pending"
    /\ Cardinality({d \in DOMAIN futures : futures[d] = "running"}) < max_parallel
    /\ futures' = [futures EXCEPT ![c] = "running"]
    /\ UNCHANGED << convert_program, convert_chunks, max_parallel, converted_chunks,
                    remaining_chunks, convert_pc, convert_log, csharp_code >>
    /\ UNCHANGED notConvertVars

\* _convert_chunk_with_cache ends in the worker: with a successful response,
\* a failed response, or an exception.
WorkerFinishesChunk(c, outcome) ==
    /\ convert_pc = "level"
    /\ c \in DOMAIN futures
    /\ futures[c] = "running"
    /\ futures' = [futures EXCEPT ![c] = outcome]
    /\ convert_log' = Append(convert_log, [event |-> "complete", chunk_id |-> c])
    /\ UNCHANGED << convert_program, convert_chunks, max_parallel, converted_chunks,
                    remaining_chunks, convert_pc, csharp_code >>
    /\ UNCHANGED notConvertVars

\* Lines 348-371: as_completed yields a finished future; the response is stored
\* and the chunk leaves remaining_chunks.
CollectFuture(c) ==
    /\ convert_pc = "level"
    /\ c \in DOMAIN futures
    /\ futures[c] \in {"success", "failed", "raised"}
    /\ converted_chunks' =
           [d \in DOMAIN converted_chunks \cup {c} |->
               IF d = c THEN FutureResponse(c, futures[c]) ELSE converted_chunks[d]]
    /\ remaining_chunks' = remaining_chunks \ {c}
    /\ futures' = [d \in DOMAIN futures \ {c} |-> futures[d]]
    /\ convert_pc' = IF DOMAIN futures = {c} THEN "loop" ELSE "level"
    /\ UNCHANGED << convert_program, convert_chunks, max_parallel, convert_log,
                    csharp_code >>
    /\ UNCHANGED notConvertVars

\* Lines 226-238 of convert: _process_chunks_with_dependencies returned, by the
\* end of the loop or by the break; the code is assembled, post-processed and
\* returned.
ConvertReturn ==
    /\ convert_pc \in {"processed", "circular"}
    /\ csharp_code' =
           PostProcessCode(AssembleCSharpCode(converted_chunks, convert_program), {})
    /\ convert_pc' = IF convert_pc = "circular" THEN "returned after circular"
                     ELSE "returned"
    /\ UNCHANGED << convert_program, convert_chunks, max_parallel, converted_chunks,
                    remaining_chunks, futures, convert_log >>
    /\ UNCHANGED notConvertVars

ConvertNext ==
    \/ SubmitReadyChunks
    \/ CircularChunks
    \/ AllChunksProcessed
    \/ \E c \in DOMAIN futures : WorkerTakesChunk(c)
    \/ \E c \in DOMAIN futures, outcome \in {"success", "failed", "raised"} :
           WorkerFinishesChunk(c, outcome)
    \/ \E c \in DOMAIN futures : CollectFuture(c)
    \/ ConvertReturn

ConvertSpec == ConvertSpecInit /\ [][ConvertNext]_vars

(***************************************************************************)
(* AttemptSpec: one attempt on a suite, from the results of the compilers  *)
(* and binaries to the decision.                                           *)
(***************************************************************************)
\* The two runners get the same suite; the C# harness prints the same return
\* value as the C harness or another one.
AttemptInputs ==
    {inp \in [c : {r \in RunnerInputs : r.runner = "c"},
              csharp : {r \in RunnerInputs : r.runner = "csharp"},
              csharp_value : {IntValue(1), IntValue(2)},
              att : 1..DefaultMaxRetries] :
        Len(inp.c.stdout) = Len(inp.csharp.stdout)}

AttemptSpecInit ==
    /\ GraphInit
    /\ OrchInit
    /\ max_retries = DefaultMaxRetries
    /\ attempt_in \in AttemptInputs
    /\ attempt_out = AttemptNotRun
    /\ OthersIdle({"attempt"})

CallRunAttempt ==
    /\ ~attempt_out.called
    /\ attempt_out' = RunAttempt(attempt_in)
    /\ UNCHANGED attempt_in
    /\ UNCHANGED notAttemptVars

AttemptNext == CallRunAttempt

AttemptSpec == AttemptSpecInit /\ [][AttemptNext]_vars

(***************************************************************************)
(* StripSpec: _remove_main_function is called on a C source.               *)
(***************************************************************************)
\* The sources of the model are C translation units: declarations, function
\* definitions with balanced braces and at most one definition of main; the
\* header "int main(void)" is followed by its opening brace.
RECURSIVE WellFormedFrom(_, _, _, _)
WellFormedFrom(lines, i, depth, after_header) ==
    IF i > Len(lines) THEN depth = 0 /\ ~after_header
    ELSE LET text == lines[i]
         IN  IF after_header
             THEN text = "{" /\ WellFormedFrom(lines, i + 1, 1, FALSE)
             ELSE IF depth = 0
                  THEN /\ text \in {"int main(void) {", "int main(void)",
                                    "int main(void) { return 0; }", "int f(void) {",
                                    "int x;", ""}
                       /\ WellFormedFrom(lines, i + 1, BraceDelta(text),
                                         text = "int main(void)")
                  ELSE /\ text \in {"{", "}", "return 1;", ""}
                       /\ WellFormedFrom(lines, i + 1, depth + BraceDelta(text), FALSE)

CSources ==
    {s \in UNION {[1..n -> SourceTexts] : n \in 0..MaxSourceLines} :
        /\ WellFormedFrom(s, 1, 0, FALSE)
        /\ Cardinality({i \in 1..Len(s) : IsMainHeader(s[i])}) <= 1
        /\ Cardinality({i \in 1..Len(s) : s[i] = "int f(void) {"}) <= 1}

StripSpecInit ==
    /\ GraphInit
    /\ OrchInit
    /\ max_retries = DefaultMaxRetries
    /\ strip_in \in CSources
    /\ strip_out = StripNotCalled
    /\ OthersIdle({"strip"})

CallRemoveMainFunction ==
    /\ ~strip_out.called
    /\ strip_out' = [called |-> TRUE, kept |-> RemoveMainFunction(strip_in)]
    /\ UNCHANGED strip_in
    /\ UNCHANGED notStripVars

StripNext == CallRemoveMainFunction

StripSpec == StripSpecInit /\ [][StripNext]_vars

(***************************************************************************)
(* SccSpec: tarjan_scc, condense_graph and topo_on_condensed on one graph. *)
(***************************************************************************)
SccSpecInit ==
    /\ GraphInit
    /\ OrchInit
    /\ max_retries = DefaultMaxRetries
    /\ scc_in \in IncludeGraphs
    /\ scc_out = SccNotCalled
    /\ OthersIdle({"scc"})

CallCondensedOrder ==
    /\ ~scc_out.called
    /\ LET sccs == TarjanScc(scc_in)
           condensed == CondenseGraph(scc_in, sccs)
       IN  scc_out' = [called |-> TRUE, sccs |-> sccs, condensed |-> condensed,
                       order |-> TopoOnCondensed(condensed)]
    /\ UNCHANGED scc_in
    /\ UNCHANGED notSccVars

SccNext == CallCondensedOrder

SccSpec == SccSpecInit /\ [][SccNext]_vars

(***************************************************************************)
(* AdmitSpec: one thread calls _convert_chunk_with_cache on chunks, one    *)
(* after the other, with the cache directory, the RateLimiter and the      *)
(* retry loop of _convert_chunk_with_gemini.                               *)
(***************************************************************************)
AdmitSpecInit ==
    /\ ChunkSpecInit
    /\ limiter_max_retries <= MaxAdmitRetries

\* Lines 377-390 and 405-410: the lookup; a hit returns the loaded response;
\* otherwise _convert_chunk_with_gemini is entered and wait_if_needed runs to
\* its end (the filter, the sleep at the limit, the append).
CachedChunkEnter(chunk) ==
    /\ chunk_call.pc = "idle"
    /\ cache_calls < MaxCacheCalls
    /\ LET cache_file == cache_files[GenerateCacheKey(chunk)]
           hit == CacheHit(cache_file)
           recent == RecentTimestamps(requests_timestamps, clock)
           woken == IF AtLimit(recent, max_requests_per_minute)
                    THEN clock + WaitTime(recent, clock)
                    ELSE clock
       IN  /\ cache_call' =
                 [chunk_triple |-> ChunkTriple(chunk),
                  persisted_before |-> persisted[ChunkTriple(chunk)],
                  response |-> IF hit THEN LoadedResponse(cache_file)
                               ELSE NoChunkResponse,
                  requests |-> 0,
                  hit |-> hit]
           /\ IF NeedsAdmission(cache_file)
              THEN /\ requests_timestamps' = Append(recent, clock)
                   /\ clock' = woken
                   /\ admissions' = Append(admissions, woken)
              ELSE UNCHANGED << requests_timestamps, clock, admissions >>
           /\ chunk_call' = IF hit THEN IdleChunkCall
                            ELSE [IdleChunkCall EXCEPT !.pc = "loop"]
           /\ cache_calls' = IF hit THEN cache_calls + 1 ELSE cache_calls
    /\ UNCHANGED << cache_files, persisted, max_requests_per_minute, worker,
                    limiter_max_retries, chunks_done >>
    /\ UNCHANGED notAdmitVars

\* Lines 393-403: _convert_chunk_with_gemini has returned; a successful
\* response is written to the cache file, and the response is returned.
CachedChunkReturn(write) ==
    /\ chunk_call.pc = "returned"
    /\ LET response == StoredResponse(chunk_call.response)
           chunk_triple == cache_call.chunk_triple
           cache_key == << chunk_triple[1], chunk_triple[2], Md5(chunk_triple[3]) >>
       IN  /\ cache_call' = [cache_call EXCEPT !.response = response,
                                               !.requests = chunk_call.requests]
           /\ IF response.success
              THEN CASE write = "written" ->
                          /\ cache_files' = [cache_files EXCEPT ![cache_key] = DumpedFile(response)]
                          /\ persisted' = [persisted EXCEPT ![chunk_triple] = response]
                     [] write = "open_raised" ->
                          UNCHANGED << cache_files, persisted >>
                     [] write = "dump_raised" ->
                          /\ cache_files' = [cache_files EXCEPT ![cache_key] = UnreadableFile]
                          /\ UNCHANGED persisted
              ELSE UNCHANGED << cache_files, persisted >>
    /\ chunk_call' = IdleChunkCall
    /\ cache_calls' = cache_calls + 1
    /\ UNCHANGED << limiterVars, limiter_max_retries, chunks_done >>
    /\ UNCHANGED notAdmitVars

AdmitNext ==
    \/ \E chunk \in AdmitChunks : CachedChunkEnter(chunk)
    \/ \E resp \in AdmitResponses : ChunkAttempt(resp)
    \/ ChunkAttemptsExhausted
    \/ \E write \in WriteOutcomes : CachedChunkReturn(write)

AdmitSpec == AdmitSpecInit /\ [][AdmitNext]_vars

(***************************************************************************)
(* Properties of the orchestrator (checked under Spec unless said).        *)
(***************************************************************************)
Nodes == dependency_graph.nodes

Results == migration_report.conversion_results

\* The results that the running (or last) migrate_all call added to the report.
RunResults == SubSeq(Results, hist.results_before + 1, Len(Results))

\* C1: in every state of migrate_all, a node marked converted has every program
\* of its dependency list marked converted.
C1_DependencyClosure ==
    \A p \in DOMAIN Nodes :
        Nodes[p].is_converted =>
            \A i \in 1..Len(Nodes[p].dependencies) :
                Nodes[Nodes[p].dependencies[i]].is_converted

\* C2: _convert_program_with_retry returns SUCCESS only from an attempt whose
\* validation gave one result per test case, all with is_match; an attempt with a
\* mismatch is never accepted: it is followed by another attempt, or by FAILED
\* when it was the last.
C2_SuccessOnlyIfAllMatch ==
    /\ hist.mismatched \cap hist.accepted = {}
    /\ (pc = "return" /\ result.status = "success") =>
          /\ hist.accepted = {attempt}
          /\ Len(validation_results) = test_suite
          /\ \A i \in 1..Len(validation_results) : validation_results[i]
    /\ pc = "return" =>
          \A k \in hist.mismatched :
              /\ k < max_retries => (k + 1) \in hist.attempts
              /\ k = max_retries => result.status = "failed"

\* C2 witness: accepted in the second attempt, on a suite of two tests, after a
\* first attempt with a mismatch.
C2_Witness ==
    /\ pc = "return"
    /\ result.status = "success"
    /\ test_suite = 2
    /\ hist.mismatched = {1}
    /\ hist.accepted = {2}

\* C3: for every max_retries, the result that _convert_program_with_retry
\* returns is in a terminal status, SUCCESS or FAILED.
C3_TerminalStatus ==
    pc = "return" => result.status \in {"success", "failed"}

\* C4: at most max_retries attempts are run, none after the accepted one, and
\* the returned result has retry_count <= max_retries.
C4_AtMostMaxRetries ==
    /\ hist.attempts \subseteq 1..max_retries
    /\ Cardinality(hist.attempts) <= max_retries
    /\ \A a \in hist.accepted : \A k \in hist.attempts : k <= a
    /\ pc = "return" => result.retry_count <= max_retries

\* C4 witness: max_retries = 2, both attempts run, the second one accepted.
C4_Witness ==
    /\ pc = "return"
    /\ max_retries = 2
    /\ hist.attempts = {1, 2}
    /\ hist.accepted = {2}
    /\ result.retry_count = 1

\* C5: a step that raises in attempt k < max_retries leaves the conversion in
\* progress and attempt k+1 is run; a step that raises in the last attempt gives
\* FAILED with an error issue; the call returns its result in both cases.
C5_ExceptionHandled ==
    /\ (pc = "for" /\ attempt \in hist.raised) =>
          /\ result.retry_count = attempt
          /\ attempt < max_retries => result.status = "in_progress"
    /\ \A k \in hist.raised :
          /\ (k < max_retries /\ pc = "return") => (k + 1) \in hist.attempts
          /\ (k = max_retries /\ pc \in {"for", "return"}) =>
                 /\ result.status = "failed"
                 /\ result.errors >= 1

\* C5 witness: both attempts of max_retries = 2 raised and the call returns.
C5_Witness ==
    /\ pc = "return"
    /\ max_retries = 2
    /\ hist.raised = {1, 2}
    /\ result.status = "failed"

\* C6: after migrate_all (and between two programs of its loop), a node is marked
\* converted iff this call recorded a SUCCESS result for that program; a program
\* with a FAILED result is not marked converted.
C6_ConvertedIffSuccess ==
    pc \in {"idle", "step4"} =>
        /\ \A p \in DOMAIN Nodes :
              Nodes[p].is_converted <=>
                 \E i \in 1..Len(RunResults) :
                    RunResults[i].program_id = p /\ RunResults[i].status = "success"
        /\ \A i \in 1..Len(RunResults) :
              RunResults[i].status = "failed" =>
                 ~Nodes[RunResults[i].program_id].is_converted

\* C6 witness: migrate_all has returned with one program converted and one failed.
C6_Witness ==
    /\ pc = "idle"
    /\ \E p \in DOMAIN Nodes : Nodes[p].is_converted
    /\ \E i \in 1..Len(RunResults) : RunResults[i].status = "failed"

\* C7 (GraphSpec): when get_conversion_order returns an order, every program is
\* in it, after each program of its current dependency list.
C7_OrderRespectsDependencies ==
    order_status = "ok" =>
        \A p \in DOMAIN Nodes :
            \A i \in 1..Len(Nodes[p].dependencies) :
                LET d == Nodes[p].dependencies[i]
                IN  /\ p \in Range(conversion_order)
                    /\ d \in Range(conversion_order)
                    /\ IndexOf(conversion_order, d) < IndexOf(conversion_order, p)

\* C8: a migrate_all that met a dependency cycle started no conversion attempt,
\* marked no node converted, and returns a report that holds no ConversionResult.
C8_CycleAbortsEmptyReport ==
    (pc = "idle" /\ hist.aborted) =>
        /\ hist.attempts = {}
        /\ \A p \in DOMAIN Nodes : ~Nodes[p].is_converted
        /\ Results = << >>

\* C9: a migrate_all that met a dependency cycle returns a report with
\* failed_programs > 0, so that the migrate command exits with code 1.
C9_CycleSurfaced ==
    (pc = "idle" /\ hist.aborted) =>
        /\ migration_report.failed_programs > 0
        /\ ExitCode(migration_report) = 1

\* C10: in every state, converted + failed + skipped <= total of the report.
C10_ReportCounts ==
    migration_report.converted_programs + migration_report.failed_programs
        + migration_report.skipped_programs <= migration_report.total_programs

(***************************************************************************)
(* Properties of the DependencyGraph (checked under GraphSpec).            *)
(***************************************************************************)
\* C11 (GraphSpec): the reverse index agrees with the forward edges: q is in
\* get_dependent_programs(p) iff p is in the current dependency list of node q.
C11_ReverseIndexConsistent ==
    \A p \in Ids : \A q \in Ids :
        q \in GetDependentPrograms(dependency_graph, p)
            <=> (q \in DOMAIN Nodes /\ p \in Range(Nodes[q].dependencies))

\* The nodes that are not converted and whose dependencies are all nodes marked
\* converted.
ReadyNodes(g) ==
    {n \in DOMAIN g.nodes :
        /\ ~g.nodes[n].is_converted
        /\ \A d \in Range(g.nodes[n].dependencies) :
              d \in DOMAIN g.nodes /\ g.nodes[d].is_converted}

\* C12 (GraphSpec): get_ready_to_convert returns exactly the nodes that are not
\* converted and whose dependencies are all marked converted, each once.
C12_ReadyExactly ==
    returned.call = "get_ready_to_convert" =>
        /\ Range(returned.value) = ReadyNodes(dependency_graph)
        /\ Len(returned.value) = Cardinality(Range(returned.value))

\* C12 witness: the only dependency of a program was marked converted and
\* get_ready_to_convert returned that program.
C12_Witness ==
    /\ returned.call = "get_ready_to_convert"
    /\ \E p \in DOMAIN Nodes :
          /\ Len(Nodes[p].dependencies) = 1
          /\ Nodes[p].dependencies[1] # p
          /\ Nodes[Nodes[p].dependencies[1]].is_converted
          /\ p \in Range(returned.value)

\* C13 (GraphSpec): a step of add_node, get_conversion_order,
\* detect_circular_dependencies or get_statistics leaves unchanged, for every node
\* that existed before the step, whether get_ready_to_convert returns it.
C13_OnlyMarkChangesReadiness ==
    [][((\E program_id \in Ids, dependencies \in DepLists :
            CallAddNode(program_id, dependencies))
        \/ CallGetConversionOrder
        \/ CallDetectCircularDependencies
        \/ CallGetStatistics)
       => \A n \in DOMAIN dependency_graph.nodes :
             (n \in Range(GetReadyToConvert(dependency_graph)))
                <=> (n \in Range(GetReadyToConvert(dependency_graph')))]_vars

(***************************************************************************)
(* Properties of DependenciesAnalysis (checked under AnalysisSpec).        *)
(***************************************************************************)
\* C14 (AnalysisSpec): find_cycles_dfs returned the empty list iff
\* topological_sort returned an order (not None) that holds every node of the
\* graph, keys and include targets, exactly once.
C14_NoCycleIffCompleteOrder ==
    analysis_pc = "done" =>
        (analysis_out.cycles = << >>
            <=> /\ ~analysis_out.order_none
                /\ Range(analysis_out.order) = TopoNodes(include_graph)
                /\ Len(analysis_out.order) = Cardinality(TopoNodes(include_graph)))

\* C14 witness: both calls returned on an acyclic graph of three nodes, one of
\* them an include target that is no key.
C14_Witness ==
    /\ analysis_pc = "done"
    /\ analysis_out.cycles = << >>
    /\ ~analysis_out.order_none
    /\ Len(analysis_out.order) = 3
    /\ TopoNodes(include_graph) # Range(include_graph.keys)

\* C15 (AnalysisSpec): in an order returned by topological_sort, u stands before
\* v for every edge u -> v of the graph.
C15_EdgesGoForward ==
    (analysis_pc = "done" /\ ~analysis_out.order_none) =>
        \A u \in Range(include_graph.keys) : \A v \in Range(include_graph.deps[u]) :
            /\ u \in Range(analysis_out.order)
            /\ v \in Range(analysis_out.order)
            /\ IndexOf(analysis_out.order, u) < IndexOf(analysis_out.order, v)

\* C15 witness: an order was returned for a graph with a chain u -> v -> w.
C15_Witness ==
    /\ analysis_pc = "done"
    /\ ~analysis_out.order_none
    /\ \E u \in Range(include_graph.keys) : \E v \in Range(include_graph.keys) :
          /\ v \in Range(include_graph.deps[u])
          /\ include_graph.deps[v] # << >>

\* C16 (AnalysisSpec): whenever topological_sort emits a node while several are
\* ready (in its queue), the emitted node is the alphabetically smallest of them.
C16_SmallestReadyFirst ==
    [][TopoPop => \A x \in Range(topo.q) : FileRank(Head(topo.q)) <= FileRank(x)]_vars

(***************************************************************************)
(* Properties of the RateLimiter (checked under LimiterSpec).              *)
(***************************************************************************)
\* C17 (LimiterSpec): at every instant, at most max_requests_per_minute of the
\* submissions that wait_if_needed admitted fall within the trailing 60 seconds.
C17_WindowBound ==
    Cardinality({i \in 1..Len(admissions) : clock - admissions[i] < WindowSeconds})
        <= max_requests_per_minute

(***************************************************************************)
(* Properties of _convert_chunk_with_gemini (checked under ChunkSpec).     *)
(***************************************************************************)
\* The response of the last pass was an HTTP 429 whose text shows a quota error.
LastIsQuota429 ==
    /\ chunk_call.last.kind = "response"
    /\ chunk_call.last.status = 429
    /\ chunk_call.last.quota

\* C18 (ChunkSpec): after an HTTP 429 quota error met while retries remain, the
\* chunk is not failed: the client has slept at least the N seconds of a
\* retryDelay "Ns", or min(60 * 2^attempt, 300) seconds when none is suggested,
\* and goes on to send the request again.
C18_QuotaRetryAfterDelay ==
    (LastIsQuota429 /\ chunk_call.attempt - 1 < limiter_max_retries) =>
        /\ chunk_call.pc = "loop"
        /\ chunk_call.slept >=
              (IF chunk_call.last.retry_info # NoDelay
               THEN chunk_call.last.retry_info \div 10
               ELSE Min2(60 * Pow2(chunk_call.attempt - 1), 300))

\* The response of the last pass had a status other than 200 and was not a 429
\* with a quota indication.
LastIsOtherError ==
    /\ chunk_call.last.kind = "response"
    /\ chunk_call.last.status # 200
    /\ ~LastIsQuota429

\* C19 (ChunkSpec): after a response that is not 2xx and not a 429 with a quota
\* indication, the call sleeps no more and sends no further request, and the
\* response it returns is a failed one.
C19_OtherErrorFailsAtOnce ==
    /\ [][(chunk_call.pc = "loop" /\ LastIsOtherError) =>
            /\ chunk_call'.requests = chunk_call.requests
            /\ clock' = clock]_vars
    /\ []((chunk_call.pc = "returned" /\ LastIsOtherError) =>
            ~chunk_call.response.success)

\* C20 (ChunkFairSpec): a call makes at most max_retries + 1 passes and HTTP
\* requests, a call that was entered returns a response, and the response of a
\* call whose passes are exhausted has success = false.
C20_BoundedRetries ==
    /\ [](/\ chunk_call.attempt <= limiter_max_retries + 1
          /\ chunk_call.requests <= limiter_max_retries + 1
          /\ chunk_call.pc = "returned" => chunk_call.response # NoGeminiResponse
          /\ (chunk_call.pc = "returned" /\ chunk_call.response.success) =>
                /\ chunk_call.last.kind = "response"
                /\ chunk_call.last.status = 200
                /\ chunk_call.last.candidates)
    /\ (chunk_call.pc = "loop") ~> (chunk_call.pc = "returned")

\* C20 witness: every pass of a call with max_retries = 3 met a transport error,
\* and the call returned after four requests.
C20_Witness ==
    /\ limiter_max_retries = 3
    /\ chunk_call.pc = "returned"
    /\ chunk_call.requests = 4
    /\ chunk_call.last.kind = "transport_error"
    /\ ~chunk_call.response.success

(***************************************************************************)
(* Properties of the conversion cache (checked under CacheSpec).           *)
(***************************************************************************)
\* C21 (CacheSpec): two chunks with the same (chunk_type, chunk_id, content) get
\* the same cache key, and a call for a chunk whose triple had a successful
\* response persisted before the call returns that response, with no HTTP
\* request.
C21_CacheReplay ==
    /\ \A c1, c2 \in ConversionChunks :
          ChunkTriple(c1) = ChunkTriple(c2) => GenerateCacheKey(c1) = GenerateCacheKey(c2)
    /\ cache_call.persisted_before # NoChunkResponse =>
          /\ cache_call.response = cache_call.persisted_before
          /\ cache_call.requests = 0

\* C21 witness: a call was answered from the cache with a response persisted by
\* an earlier call.
C21_Witness ==
    /\ cache_calls >= 2
    /\ cache_call.hit
    /\ cache_call.persisted_before.success
    /\ cache_call.response = cache_call.persisted_before

(***************************************************************************)
(* Properties of the hybrid converter (checked under HybridSpec).          *)
(***************************************************************************)
\* The structural checks: long enough, a using directive, a class header, a
\* closing brace.
PassesStructuralChecks(code) ==
    /\ code.stripped_len >= 50
    /\ code.using_system /\ code.public_class /\ code.closing_brace

\* C22 (HybridSpec): convert returns and never raises; it returns the LLM output
\* exactly when the LLM converter was used, returned a text and the text passes
\* the structural checks; otherwise the rule-based output when fallback_to_rules
\* is set and the rule-based converter returned; otherwise the emergency stub.
C22_ConverterOrder ==
    hybrid_call.ended # "none" =>
        /\ hybrid_call.ended = "returned"
        /\ hybrid_call.returned.from \in {"gemini", "rules", "emergency"}
        /\ hybrid_call.returned.from = "gemini" <=>
              /\ hybrid_call.gemini.kind = "code"
              /\ PassesStructuralChecks(hybrid_call.gemini.code)
        /\ hybrid_call.returned.from = "gemini" =>
              hybrid_call.returned.code = hybrid_call.gemini.code
        /\ hybrid_call.gemini.kind # "not called" <=> hybrid.use_gemini
        /\ hybrid_call.returned.from = "rules" <=>
              /\ hybrid_call.returned.from # "gemini"
              /\ hybrid.fallback_to_rules
              /\ hybrid_call.rules = "code"
        /\ hybrid_call.returned.from = "emergency" =>
              hybrid_call.returned = EmergencyConversion(hybrid_call.program)

\* C22 witness: the LLM output failed the structural checks, the rule-based
\* converter raised, and the emergency stub was returned.
C22_Witness ==
    /\ hybrid_call.gemini.kind = "code"
    /\ ~hybrid_call.gemini.code.using_system
    /\ hybrid_call.rules = "Exception"
    /\ hybrid_call.returned.from = "emergency"

\* C23 (HybridSpec): when the translation of a chunk of the program failed and
\* fallback_to_rules is set, convert does not return the LLM assembly, from
\* which the failed chunk is missing: it returns the rule-based conversion (or
\* the emergency stub when the rule-based converter raised).
C23_ChunkFailureFallsBack ==
    (chunk_results.failed # {} /\ hybrid.fallback_to_rules) =>
        /\ hybrid_call.returned.from # "gemini"
        /\ hybrid_call.rules = "code" => hybrid_call.returned.from = "rules"

(***************************************************************************)
(* Properties of the validator (checked under ValidatorSpec).              *)
(***************************************************************************)
\* C24 (ValidatorSpec): every ValidationResult that validate returns has
\* matching_outputs + different_outputs = total_outputs, and is_match exactly
\* when total_outputs > 0 and different_outputs = 0; so do the results of tests
\* whose C or C# result is missing.
C24_ValidationCounts ==
    validator_out.called =>
        \A i \in 1..Len(validator_out.results) :
            /\ validator_out.results[i].matching_outputs + validator_out.results[i].different_outputs
                  = validator_out.results[i].total_outputs
            /\ validator_out.results[i].is_match <=>
                  (validator_out.results[i].total_outputs > 0 /\ validator_out.results[i].different_outputs = 0)

\* C24 witness: a suite of two tests, one with a missing C# result, the other
\* with an output found only in C and an output that matches.
C24_Witness ==
    /\ validator_out.called
    /\ Len(validator_out.results) = 2
    /\ ~validator_in[1].csharp.present
    /\ validator_out.results[1].total_outputs = 0
    /\ validator_out.results[2].matching_outputs = 1
    /\ validator_out.results[2].different_outputs = 1
    /\ validator_in[2].c.present /\ validator_in[2].csharp.present
    /\ DOMAIN validator_in[2].csharp.outputs # DOMAIN validator_in[2].c.outputs

\* Both values are NaN, or both are the infinity of one sign.
SameSpecialValue(c_value, csharp_value) ==
    \/ c_value.class = "nan" /\ csharp_value.class = "nan"
    \/ /\ c_value.class = "inf" /\ csharp_value.class = "inf"
       /\ c_value.units = csharp_value.units

\* C25 (ValidatorSpec): for an output that is NaN or an infinity on either side,
\* the validator reports a match exactly when the other side is NaN too, or the
\* infinity of the same sign; in every other case the output is a difference
\* and the test is not a match.
C25_SpecialFloats ==
    validator_out.called =>
        \A i \in 1..Len(validator_out.results) :
            (validator_in[i].c.present /\ validator_in[i].csharp.present) =>
                \A key \in DOMAIN validator_in[i].c.outputs
                             \cap DOMAIN validator_in[i].csharp.outputs :
                    LET c_value == validator_in[i].c.outputs[key]
                        csharp_value == validator_in[i].csharp.outputs[key]
                    IN  (c_value.class \in {"nan", "inf"} \/ csharp_value.class \in {"nan", "inf"}) =>
                            /\ key \in validator_out.results[i].differences
                                  <=> ~SameSpecialValue(c_value, csharp_value)
                            /\ ~SameSpecialValue(c_value, csharp_value)
                                  => ~validator_out.results[i].is_match

(***************************************************************************)
(* Properties of the test runners (checked under RunnerSpec).              *)
(***************************************************************************)
\* C26 (RunnerSpec): when compilation fails or the execution times out,
\* run_tests returns one result for each test case of the suite, each with
\* status error, completed_at set and no outputs.
C26_AllTestsError ==
    (runner_out.called /\ (runner_in.compile # "ok" \/ runner_in.run = "timeout")) =>
        /\ DOMAIN runner_out.results = 1..Len(runner_in.stdout)
        /\ \A id \in DOMAIN runner_out.results :
              /\ runner_out.results[id].test_case_id = id
              /\ runner_out.results[id].status = "error"
              /\ runner_out.results[id].completed_at
              /\ runner_out.results[id].outputs = {}

\* C26 witness: the execution of a suite of two test cases timed out in the C#
\* runner.
C26_Witness ==
    /\ runner_out.called
    /\ runner_in.runner = "csharp"
    /\ runner_in.compile = "ok"
    /\ runner_in.run = "timeout"
    /\ Len(runner_in.stdout) = 2
    /\ runner_out.results[2].error_message = "C# execution timeout"

\* C27 (RunnerSpec): when the binary ran and its stdout holds no protocol line
\* of a test case, the result of that test case has status error, and keeps the
\* stdout and the stderr of the run.
C27_UnparseableIsError ==
    (runner_out.called /\ runner_in.compile = "ok" /\ runner_in.run = "ran") =>
        \A id \in DOMAIN runner_out.results :
            runner_in.stdout[id] = {} =>
                /\ runner_out.results[id].status = "error"
                /\ runner_out.results[id].standard_output = runner_in.stdout
                /\ runner_out.results[id].standard_error = "stderr"

(***************************************************************************)
(* Properties of the test generator (checked under GeneratorSpec).         *)
(***************************************************************************)
\* The names of the functions that the C source declares static.
StaticInSource ==
    {generator_source[i].name :
        i \in {j \in 1..Len(generator_source) : generator_source[j].static}}

\* C28: a suite generated without a function name for a program of the
\* analyzer holds no test case for main and none for a function that the C
\* source declares static.
C28_NoTestsForMainOrStatic ==
    \A s \in 1..Len(test_suites) : \A k \in 1..Len(test_suites[s]) :
        /\ test_suites[s][k].function_name # "main"
        /\ test_suites[s][k].function_name \notin StaticInSource

\* The random test cases of a suite, in the order of the suite.
RECURSIVE RandomTests(_)
RandomTests(suite) ==
    IF suite = << >> THEN << >>
    ELSE (IF Head(suite).category = "random" THEN << Head(suite) >> ELSE << >>)
         \o RandomTests(Tail(suite))

\* C29: random input generation is deterministic under the fixed seed: the
\* random test cases that generate_tests returns for a program in a later
\* attempt have the same inputs as those it returned in the first attempt.
C29_RandomTestsRepeat ==
    \A s \in 1..Len(test_suites) :
        RandomTests(test_suites[s]) = RandomTests(test_suites[1])

(***************************************************************************)
(* Properties of the analyzer's program ids (checked under Spec).          *)
(***************************************************************************)
\* C30: the program_ids assigned by the analyzer are unique: two distinct
\* parsed files never get the same program_id, so _get_program_by_id names
\* exactly one program, the one whose file was parsed under that id.
C30_UniqueProgramIds ==
    \A i, j \in 1..Len(programs) :
        programs[i].program_id = programs[j].program_id =>
            /\ i = j
            /\ GetProgramById(programs, programs[i].program_id) = i

(***************************************************************************)
(* Properties of convert (checked under ConvertSpec).                      *)
(***************************************************************************)
\* The dependencies of a chunk of the list.
DependenciesOfChunk(chunk_id) ==
    UNION {convert_chunks[i].dependencies :
              i \in {j \in 1..Len(convert_chunks) : convert_chunks[j].chunk_id = chunk_id}}

\* C31: no chunk is submitted to a worker before the translation of every chunk
\* it depends on has completed: each submit event of the log comes after a
\* complete event of every dependency of the chunk, while a chunk is pending
\* or running no chunk that depends on it has been submitted, and a submit
\* event that follows a complete event (the start of a level) comes after the
\* complete events of all chunks submitted before it.
C31_DependenciesCompleteBeforeSubmit ==
    /\ \A i \in 1..Len(convert_log) :
          convert_log[i].event = "submit" =>
              \A d \in DependenciesOfChunk(convert_log[i].chunk_id) :
                  \E j \in 1..(i - 1) :
                      /\ convert_log[j].event = "complete"
                      /\ convert_log[j].chunk_id = d
    /\ \A c \in DOMAIN futures :
          \A d \in DependenciesOfChunk(c) :
              d \notin DOMAIN futures /\ d \in DOMAIN converted_chunks
    /\ \A i \in 2..Len(convert_log) :
          convert_log[i].event = "submit" /\ convert_log[i - 1].event = "complete" =>
              \A j \in 1..(i - 1) :
                  convert_log[j].event = "submit" =>
                      \E k \in (j + 1)..(i - 1) :
                          /\ convert_log[k].event = "complete"
                          /\ convert_log[k].chunk_id = convert_log[j].chunk_id

\* C31 witness: a chunk of the second level was submitted after the structure
\* chunk completed, and two chunks of the level run at the same time.
C31_Witness ==
    /\ Len(convert_log) >= 3
    /\ convert_log[1] = [event |-> "submit", chunk_id |-> ProgramStructureId]
    /\ convert_log[2] = [event |-> "complete", chunk_id |-> ProgramStructureId]
    /\ convert_log[3].event = "submit"
    /\ Cardinality({c \in DOMAIN futures : futures[c] = "running"}) = 2

KindRank(kind) ==
    CASE kind = "defines" -> 1 [] kind = "enum" -> 2 [] kind = "struct" -> 3
      [] kind = "globals" -> 4 [] kind = "func" -> 5 [] OTHER -> 0

\* C33: the code that convert returns contains the converted code of every
\* successfully translated chunk (defines, enums, structs, globals, functions
\* and the parts of a split function), in the canonical order of the kinds.
C33_AssemblyHoldsEveryChunk ==
    convert_pc = "returned" =>
        /\ \A c \in DOMAIN converted_chunks :
              converted_chunks[c].success /\ c # ProgramStructureId =>
                  \E i \in 1..Len(csharp_code) : csharp_code[i].code_of = c
        /\ \A i, j \in 1..Len(csharp_code) :
              i < j /\ csharp_code[i].code_of # NoChunkId
                    /\ csharp_code[j].code_of # NoChunkId =>
                  KindRank(csharp_code[i].code_of.kind)
                      <= KindRank(csharp_code[j].code_of.kind)

(***************************************************************************)
(* Properties of one attempt (checked under AttemptSpec).                  *)
(***************************************************************************)
\* The C or the C# compilation failed, or the execution of one of the binaries
\* timed out.
CompileFailedOrTimedOut ==
    \/ attempt_in.c.compile # "ok"
    \/ attempt_in.csharp.compile # "ok"
    \/ attempt_in.c.run = "timeout"
    \/ attempt_in.csharp.run = "timeout"

\* C34: when a compilation fails or an execution times out in an attempt on a
\* non-empty suite, no test of the suite validates as a match and the attempt
\* is not accepted: the result is not SUCCESS, it is left for a retry or FAILED.
C34_CompileFailureNotAccepted ==
    attempt_out.called /\ CompileFailedOrTimedOut /\ Len(attempt_in.c.stdout) > 0 =>
        /\ \A i \in 1..Len(attempt_out.validation) : ~attempt_out.validation[i].is_match
        /\ attempt_out.status # "success"
        /\ ~attempt_out.break_loop
        /\ attempt_out.status = "failed" <=> attempt_in.att >= DefaultMaxRetries

\* C34 witness: the C# compilation failed on a suite of two tests whose C run
\* parsed a return value for each, and the last attempt ended FAILED.
C34_Witness ==
    /\ attempt_out.called
    /\ attempt_in.csharp.compile = "failed"
    /\ attempt_in.c.compile = "ok" /\ attempt_in.c.run = "ran"
    /\ Len(attempt_in.c.stdout) = 2
    /\ \A i \in 1..2 : "return_value" \in attempt_out.c_results[i].outputs
    /\ attempt_out.status = "failed"

(***************************************************************************)
(* Properties of main-stripping (checked under StripSpec).                 *)
(***************************************************************************)
\* The brace depth of the source after line i, counted from line first on.
RECURSIVE DepthAfter(_, _, _)
DepthAfter(lines, first, i) ==
    IF i < first THEN 0
    ELSE DepthAfter(lines, first, i - 1) + BraceDelta(lines[i])

\* The lines of the definition of main: from the header through the line on
\* which the body, once opened, is closed again (the header itself when the
\* whole definition is on it).
MainLines(lines) ==
    IF \E h \in 1..Len(lines) : IsMainHeader(lines[h])
    THEN LET h == CHOOSE m \in 1..Len(lines) : IsMainHeader(lines[m])
             opened(i) == lines[h] = "int main(void) { return 0; }"
                          \/ \E m \in h..i : BraceDelta(lines[m]) = 1
             last == CHOOSE e \in h..Len(lines) :
                         /\ opened(e) /\ DepthAfter(lines, h, e) = 0
                         /\ \A m \in h..(e - 1) :
                               ~(opened(m) /\ DepthAfter(lines, h, m) = 0)
         IN  h..last
    ELSE {}

RECURSIVE LinesOutside(_, _, _)
LinesOutside(n, i, removed) ==
    IF i > n THEN << >>
    ELSE (IF i \in removed THEN << >> ELSE << i >>) \o LinesOutside(n, i + 1, removed)

\* C35: main-stripping removes exactly the lines of the definition of main and
\* keeps every other line of the source in its order; the result holds no
\* header of main.
C35_StripsExactlyMain ==
    strip_out.called =>
        /\ strip_out.kept = LinesOutside(Len(strip_in), 1, MainLines(strip_in))
        /\ \A j \in 1..Len(strip_out.kept) : ~IsMainHeader(strip_in[strip_out.kept[j]])

(***************************************************************************)
(* Properties of the condensation (checked under SccSpec).                 *)
(***************************************************************************)
\* C36: tarjan_scc, condense_graph and topo_on_condensed yield an order that
\* holds every component exactly once, also a component without an edge to
\* another component, and that places c1 before c2 for every condensed edge
\* from c1 to c2.
C36_CondensedOrderComplete ==
    scc_out.called =>
        /\ \A c \in 0..(Len(scc_out.sccs) - 1) :
              Cardinality({i \in 1..Len(scc_out.order) : scc_out.order[i] = c}) = 1
        /\ \A c1 \in DOMAIN scc_out.condensed.dests :
              \A c2 \in scc_out.condensed.dests[c1] :
                  \E i, j \in 1..Len(scc_out.order) :
                      i < j /\ scc_out.order[i] = c1 /\ scc_out.order[j] = c2

(***************************************************************************)
(* Further properties of the DependencyGraph (checked under GraphSpec).     *)
(***************************************************************************)
\* C37 (GraphSpec): for a graph without a cycle, get_conversion_order returns a
\* permutation of the nodes: every node of the graph is in the order exactly
\* once, also when a dependency list names one program more than once or
\* add_node was called again for a node that exists.
C37_OrderIsPermutation ==
    order_status = "ok" =>
        /\ Len(conversion_order) = Cardinality(DOMAIN Nodes)
        /\ \A p \in DOMAIN Nodes :
              Cardinality({i \in 1..Len(conversion_order) : conversion_order[i] = p}) = 1

(***************************************************************************)
(* Further properties of migrate_all (checked under Spec).                  *)
(***************************************************************************)
\* C38: when the dependency graph has no cycle, migrate_all attempts every
\* parsed program exactly once: the report of a finished run holds exactly one
\* ConversionResult for each parsed program, so the number of results of the
\* run equals total_programs.
C38_OneResultPerProgram ==
    (pc = "idle" /\ runs > 0 /\ ~hist.aborted) =>
        /\ Len(RunResults) = migration_report.total_programs
        /\ \A i \in 1..Len(programs) :
              Cardinality({k \in 1..Len(RunResults) :
                              RunResults[k].program_id = programs[i].program_id}) = 1

\* C39: an attempt whose generated suite is empty and in which no step raises
\* marks the result SUCCESS and leaves the loop (no validation result is a
\* mismatch), in the first attempt already; migrate_all then marks the node
\* of the program converted.
C39_EmptySuiteSucceeds ==
    [][/\ (pc = "try" /\ step = "validate_outputs" /\ test_suite = 0
              /\ hist'.raised = hist.raised)
          => (result'.status = "success" /\ pc' = "return"
                 /\ attempt \in hist'.accepted)
       /\ (pc = "return" /\ test_suite = 0 /\ attempt \in hist.accepted)
          => dependency_graph'.nodes[result.program_id].is_converted]_vars

\* C39 witness: the first attempt generated an empty suite, validated and was
\* accepted; the result is about to be recorded.
C39_Witness ==
    /\ pc = "return"
    /\ attempt = 1
    /\ test_suite = 0
    /\ validation_results = << >>
    /\ hist.raised = {}
    /\ result.status = "success"

(***************************************************************************)
(* Properties of the admission of chunks (checked under AdmitSpec).         *)
(***************************************************************************)
\* C40: wait_if_needed is invoked exactly once for a chunk that misses the
\* cache, when _convert_chunk_with_gemini is entered and before its first HTTP
\* request; a cache hit invokes it not at all and sends no request; the
\* attempts of the retry loop, the first and the retried ones, and the return
\* make no new admission and record no timestamp.
C40_OneAdmissionPerMiss ==
    [][/\ (chunk_call.pc = "idle" /\ cache_call'.hit)
          => /\ UNCHANGED << admissions, requests_timestamps, clock >>
             /\ chunk_call'.pc = "idle"
             /\ cache_call'.requests = 0
       /\ (chunk_call.pc = "idle" /\ ~cache_call'.hit)
          => /\ Len(admissions') = Len(admissions) + 1
             /\ requests_timestamps' # << >>
             /\ chunk_call'.pc = "loop"
             /\ chunk_call'.requests = 0
       /\ (chunk_call.pc \in {"loop", "returned"})
          => UNCHANGED << admissions, requests_timestamps >>]_vars

\* C40 witness: a chunk missed the cache, was admitted once, and its call has
\* sent a second HTTP request after a retry; an earlier chunk was served
\* from the cache.
C40_Witness ==
    /\ chunk_call.pc = "returned"
    /\ chunk_call.requests >= 2
    /\ ~cache_call.hit
    /\ Len(admissions) = 2
    /\ cache_calls = 2
    /\ \E k \in DOMAIN cache_files : CacheHit(cache_files[k])

====
